---- MODULE Spec2Model ----
(***************************************************************************)
(* Catalogo Articoli (app.py): the text helpers of the HELPERS block       *)
(* (to_clean_str, normalize_spaces, norm_key, str_similarity,              *)
(* _tokenize_keep_spaces, diff_old_new_html) and the "suggerimenti simili" *)
(* ranking, as state machines whose states hold the arguments and the      *)
(* result of one call.                                                     *)
(*                                                                         *)
(* A Python str is a sequence of one-character strings.  A Python value is *)
(* a record [type, val].  A float that is the quotient of two integers is  *)
(* the record [num, den] (den > 0) and is compared by cross-multiplying.   *)
(* Indices into Python lists are 0-based, as in the source: a[i] of the    *)
(* source is a[i + 1] here.                                                *)
(***************************************************************************)
EXTENDS Integers, Sequences, FiniteSets, TLC

VARIABLES pc, a, b, sim, old, new, diff, s, toks, df, cur, cand, calls, frames,
          ws, lastcall, upserts, session_state, ui

vars == <<pc, a, b, sim, old, new, diff, s, toks, df, cur, cand, calls, frames,
          ws, lastcall, upserts, session_state, ui>>

-----------------------------------------------------------------------------
(* Bounds of the model.                                                    *)

\* longest enumerated argument of str_similarity
SimMaxLen == 3
\* longest enumerated argument of diff_old_new_html
DiffMaxLen == 3
\* longest enumerated argument of _tokenize_keep_spaces
TokMaxLen == 4
\* most rows of the catalog table
MaxRows == 3
\* threads that call the helpers at the same time
ConcThreads == 2
\* most calls one thread makes
MaxCalls == 2

-----------------------------------------------------------------------------
(* Python values and characters.                                           *)

PyStr(x) == [type |-> "str", val |-> x]
PyNone == [type |-> "NoneType", val |-> <<>>]

\* the characters str.isspace() accepts, among those of the model
Whitespace == {" ", "\t"}
IsSpace(c) == c \in Whitespace

\* str.lower(), character by character ("ß" is its own lower case)
LowerOf ==
    [A |-> "a", B |-> "b", C |-> "c", D |-> "d", E |-> "e", F |-> "f", G |-> "g",
     H |-> "h", I |-> "i", J |-> "j", K |-> "k", L |-> "l", M |-> "m", N |-> "n",
     O |-> "o", P |-> "p", Q |-> "q", R |-> "r", S |-> "s", T |-> "t", U |-> "u",
     V |-> "v", W |-> "w", X |-> "x", Y |-> "y", Z |-> "z"]
LowerChar(c) == IF c \in DOMAIN LowerOf THEN LowerOf[c] ELSE c
Lower(x) == [i \in 1..Len(x) |-> LowerChar(x[i])]

\* str.casefold(): lower case, and "ß" folds to "ss" (computed by halves)
RECURSIVE Casefold(_)
Casefold(x) ==
    IF x = <<>> THEN <<>>
    ELSE IF Len(x) = 1
    THEN (IF x[1] = "ß" THEN <<"s", "s">> ELSE <<LowerChar(x[1])>>)
    ELSE LET mid == Len(x) \div 2
         IN  Casefold(SubSeq(x, 1, mid)) \o Casefold(SubSeq(x, mid + 1, Len(x)))

\* str.strip(): from the first to the last character that is not whitespace
Strip(x) ==
    LET NotSpace(i) == ~IsSpace(x[i])
        keep == SelectSeq([i \in 1..Len(x) |-> i], NotSpace)
    IN  IF keep = <<>> THEN <<>> ELSE SubSeq(x, keep[1], keep[Len(keep)])

\* an int, and a float: NaN, or the float nearest to tenths / 10
PyInt(n) == [type |-> "int", val |-> n]
PyFloat(t) == [type |-> "float", val |-> [nan |-> FALSE, tenths |-> t]]
PyNaN == [type |-> "float", val |-> [nan |-> TRUE, tenths |-> 0]]

\* pd.isna(x), for a scalar
IsNa(x) == x.type = "NoneType" \/ (x.type = "float" /\ x.val.nan)

\* str(n) for an int n
DigitOf == <<"0", "1", "2", "3", "4", "5", "6", "7", "8", "9">>
RECURSIVE NatToStr(_)
NatToStr(n) ==
    IF n < 10 THEN <<DigitOf[n + 1]>>
    ELSE NatToStr(n \div 10) \o <<DigitOf[(n % 10) + 1]>>
IntToStr(n) == IF n < 0 THEN <<"-">> \o NatToStr(-n) ELSE NatToStr(n)

\* f"{x}" for a float x
FormatFloat(v) ==
    IF v.nan THEN <<"n", "a", "n">>
    ELSE LET m == IF v.tenths < 0 THEN -v.tenths ELSE v.tenths
         IN  (IF v.tenths < 0 THEN <<"-">> ELSE <<>>)
                 \o NatToStr(m \div 10) \o <<".">> \o NatToStr(m % 10)

\* s.rstrip(c)
RStrip(x, c) ==
    LET NotC(i) == x[i] # c
        keep == SelectSeq([i \in 1..Len(x) |-> i], NotC)
    IN  IF keep = <<>> THEN <<>> ELSE SubSeq(x, 1, keep[Len(keep)])

\* to_clean_str without the test pd.isna(x)
to_clean_str_NoNaTest(x) ==
    IF x.type = "NoneType" THEN <<>>
    ELSE IF x.type = "int" THEN IntToStr(x.val)
    ELSE IF x.type = "float"
    THEN (IF ~x.val.nan /\ x.val.tenths % 10 = 0
          THEN IntToStr((IF x.val.tenths < 0 THEN -1 ELSE 1)
                            * ((IF x.val.tenths < 0 THEN -x.val.tenths
                                ELSE x.val.tenths) \div 10))
          ELSE LET f == FormatFloat(x.val)
               IN  IF \E i \in 1..Len(f) : f[i] = "."
                   THEN RStrip(RStrip(f, "0"), ".") ELSE f)
    ELSE LET t == Strip(x.val)
         IN  IF Lower(t) = <<"n", "a", "n">> THEN <<>> ELSE t

\* to_clean_str: None and NaN are "", an int is its digits, a float is its
\* digits without a trailing ".0", a str is stripped, and the text "nan" in
\* any letter case is ""
to_clean_str(x) ==
    IF x.type = "NoneType" THEN <<>>
    ELSE IF IsNa(x) THEN <<>>
    ELSE IF x.type = "int" THEN IntToStr(x.val)
    ELSE IF x.type = "float"
    THEN (IF ~x.val.nan /\ x.val.tenths % 10 = 0
          THEN IntToStr((IF x.val.tenths < 0 THEN -1 ELSE 1)
                            * ((IF x.val.tenths < 0 THEN -x.val.tenths
                                ELSE x.val.tenths) \div 10))
          ELSE LET f == FormatFloat(x.val)
               IN  IF \E i \in 1..Len(f) : f[i] = "."
                   THEN RStrip(RStrip(f, "0"), ".") ELSE f)
    ELSE LET t == Strip(x.val)
         IN  IF Lower(t) = <<"n", "a", "n">> THEN <<>> ELSE t

\* str.split() with no separator: the maximal runs of non-whitespace, in order
Split(x) ==
    LET n == Len(x)
        IsStart(i) == ~IsSpace(x[i]) /\ (i = 1 \/ IsSpace(x[i - 1]))
        IsEnd(i) == ~IsSpace(x[i]) /\ (i = n \/ IsSpace(x[i + 1]))
        starts == SelectSeq([i \in 1..n |-> i], IsStart)
        ends == SelectSeq([i \in 1..n |-> i], IsEnd)
    IN  [k \in 1..Len(starts) |-> SubSeq(x, starts[k], ends[k])]

\* sep.join(parts[lo..hi]) (computed by halves)
RECURSIVE JoinRange(_, _, _, _)
JoinRange(sep, parts, lo, hi) ==
    IF hi < lo THEN <<>>
    ELSE IF lo = hi THEN parts[lo]
    ELSE LET mid == (lo + hi) \div 2
         IN  JoinRange(sep, parts, lo, mid) \o sep \o JoinRange(sep, parts, mid + 1, hi)

\* sep.join(parts)
Join(sep, parts) == JoinRange(sep, parts, 1, Len(parts))

normalize_spaces(x) == Join(<<" ">>, Split(to_clean_str(x)))

norm_key(x) == Casefold(normalize_spaces(x))

-----------------------------------------------------------------------------
(* difflib.SequenceMatcher, as str_similarity and diff_old_new_html use    *)
(* it: the elements of aa and bb are characters (str_similarity) or tokens *)
(* (diff_old_new_html).  isjunk is None in both calls.                     *)

\* SequenceMatcher's autojunk heuristic applies to a second sequence of at
\* least this many elements
AutoJunkMinLen == 200

\* a float as the quotient of two integers
Quot(n, d) == [num |-> n, den |-> d]
FloatEq(x, y) == x.num * y.den = y.num * x.den
FloatLe(x, y) == x.num * y.den <= y.num * x.den
FloatLt(x, y) == x.num * y.den < y.num * x.den
Zero == Quot(0, 1)
One == Quot(1, 1)

EmptyMap == [k \in {} |-> 0]
MapGet(m, k, dflt) == IF k \in DOMAIN m THEN m[k] ELSE dflt

\* the 0-based positions of element e in bb, ascending
IndicesOf(bb, e) ==
    LET IsE(j) == bb[j + 1] = e
    IN  SelectSeq([j \in 1..Len(bb) |-> j - 1], IsE)

\* __chain_b: b2j maps each element of bb to its positions; with autojunk,
\* and bb of 200 elements or more, the elements that occur more than
\* len(bb) // 100 + 1 times are "popular" and are removed from b2j
ChainB(bb, autojunk) ==
    LET n == Len(bb)
        elts == {bb[j] : j \in 1..n}
        popular == IF autojunk /\ n >= AutoJunkMinLen
                   THEN {e \in elts : Len(IndicesOf(bb, e)) > (n \div 100) + 1}
                   ELSE {}
    IN  [e \in elts \ popular |-> IndicesOf(bb, e)]

\* isbjunk: the junk set is empty, since isjunk is None
IsBJunk(e) == FALSE

\* find_longest_match, the loop "for j in b2j.get(a[i], nothing)"
RECURSIVE FlmInner(_, _, _, _, _, _, _, _)
FlmInner(idx, p, i, blo, bhi, j2len, newj2len, best) ==
    IF p > Len(idx) THEN [best |-> best, j2len |-> newj2len]
    ELSE LET j == idx[p]
         IN  IF j < blo
             THEN FlmInner(idx, p + 1, i, blo, bhi, j2len, newj2len, best)
             ELSE IF j >= bhi
             THEN [best |-> best, j2len |-> newj2len]
             ELSE LET k == MapGet(j2len, j - 1, 0) + 1
                      nb == IF k > best.size
                            THEN [i |-> i - k + 1, j |-> j - k + 1, size |-> k]
                            ELSE best
                  IN  FlmInner(idx, p + 1, i, blo, bhi, j2len,
                               (j :> k) @@ newj2len, nb)

\* find_longest_match, one pass of the loop "for i in range(alo, ahi)": st
\* holds the loop variable i, j2len and the best match so far
FlmRow(aa, b2j, blo, bhi, st) ==
    LET r == FlmInner(MapGet(b2j, aa[st.i + 1], <<>>), 1, st.i, blo, bhi,
                      st.j2len, EmptyMap, st.best)
    IN  [i |-> st.i + 1, j2len |-> r.j2len, best |-> r.best]

\* find_longest_match, the loop "for i in range(alo, ahi)" from row st.i to
\* row hi - 1, in order (the first half of the rows, then the second)
RECURSIVE FlmRows(_, _, _, _, _, _)
FlmRows(aa, b2j, hi, blo, bhi, st) ==
    IF st.i >= hi THEN st
    ELSE IF st.i + 1 = hi THEN FlmRow(aa, b2j, blo, bhi, st)
    ELSE LET mid == (st.i + hi) \div 2
         IN  FlmRows(aa, b2j, hi, blo, bhi, FlmRows(aa, b2j, mid, blo, bhi, st))

\* find_longest_match, the loops "while besti > alo and bestj > blo and ...":
\* the match grows to the left over equal elements, up to the first pair that
\* differs; first over non-junk elements (junk = FALSE), later over junk ones
\* (junk = TRUE)
FlmExtendLeft(aa, bb, alo, blo, m, junk) ==
    LET most == IF m.i - alo < m.j - blo THEN m.i - alo ELSE m.j - blo
        Stop(t) == ~(IsBJunk(bb[m.j - t + 1]) = junk /\ aa[m.i - t + 1] = bb[m.j - t + 1])
        stops == SelectSeq([t \in 1..most |-> t], Stop)
        k == IF stops = <<>> THEN most ELSE stops[1] - 1
    IN  [i |-> m.i - k, j |-> m.j - k, size |-> m.size + k]

\* find_longest_match, the loops "while besti+bestsize < ahi and ...": the
\* match grows to the right over equal elements, up to the first pair that
\* differs
FlmExtendRight(aa, bb, ahi, bhi, m, junk) ==
    LET ra == ahi - (m.i + m.size)
        rb == bhi - (m.j + m.size)
        most == IF ra < rb THEN ra ELSE rb
        Stop(t) == ~(/\ IsBJunk(bb[m.j + m.size + t]) = junk
                     /\ aa[m.i + m.size + t] = bb[m.j + m.size + t])
        stops == SelectSeq([t \in 1..most |-> t], Stop)
        k == IF stops = <<>> THEN most ELSE stops[1] - 1
    IN  [i |-> m.i, j |-> m.j, size |-> m.size + k]

\* find_longest_match(alo, ahi, blo, bhi): the longest block a[i:i+k] ==
\* b[j:j+k] inside the two ranges made of elements b2j knows, earliest in a and
\* then earliest in b, then extended over the neighbouring equal elements
find_longest_match(aa, bb, b2j, alo, ahi, blo, bhi) ==
    LET m0 == FlmRows(aa, b2j, ahi, blo, bhi,
                      [i |-> alo, j2len |-> EmptyMap,
                       best |-> [i |-> alo, j |-> blo, size |-> 0]]).best
        m1 == FlmExtendLeft(aa, bb, alo, blo, m0, FALSE)
        m2 == FlmExtendRight(aa, bb, ahi, bhi, m1, FALSE)
        m3 == FlmExtendLeft(aa, bb, alo, blo, m2, TRUE)
    IN  FlmExtendRight(aa, bb, ahi, bhi, m3, TRUE)

\* get_matching_blocks, the loop "while queue": st holds the queue, a stack
\* of ranges (alo, ahi, blo, bhi), and the blocks found; the left remainder is
\* pushed before the right one
RECURSIVE MatchQueue(_, _, _, _)
MatchQueue(aa, bb, b2j, st) ==
    IF st.queue = <<>> THEN st.blocks
    ELSE LET q == st.queue[Len(st.queue)]
             rest == SubSeq(st.queue, 1, Len(st.queue) - 1)
             x == find_longest_match(aa, bb, b2j, q.alo, q.ahi, q.blo, q.bhi)
             left == IF q.alo < x.i /\ q.blo < x.j
                     THEN <<[alo |-> q.alo, ahi |-> x.i, blo |-> q.blo, bhi |-> x.j]>>
                     ELSE <<>>
             right == IF x.i + x.size < q.ahi /\ x.j + x.size < q.bhi
                      THEN <<[alo |-> x.i + x.size, ahi |-> q.ahi,
                              blo |-> x.j + x.size, bhi |-> q.bhi]>>
                      ELSE <<>>
         IN  IF x.size # 0
             THEN MatchQueue(aa, bb, b2j,
                             [queue |-> rest \o left \o right,
                              blocks |-> Append(st.blocks, x)])
             ELSE MatchQueue(aa, bb, b2j, [queue |-> rest, blocks |-> st.blocks])

\* the order of the tuples (i, j, size)
BlockLt(x, y) ==
    \/ x.i < y.i
    \/ x.i = y.i /\ x.j < y.j
    \/ x.i = y.i /\ x.j = y.j /\ x.size < y.size

\* matching_blocks.sort()
RECURSIVE SortBlocks(_)
SortBlocks(blocks) ==
    IF blocks = <<>> THEN <<>>
    ELSE LET m == CHOOSE p \in 1..Len(blocks) :
                      \A q \in 1..Len(blocks) : ~BlockLt(blocks[q], blocks[p])
         IN  <<blocks[m]>>
             \o SortBlocks(SubSeq(blocks, 1, m - 1) \o SubSeq(blocks, m + 1, Len(blocks)))

\* get_matching_blocks, the loop that merges adjacent blocks
RECURSIVE MergeAdjacent(_, _, _)
MergeAdjacent(blocks, cur1, out) ==
    IF blocks = <<>>
    THEN (IF cur1.size # 0 THEN Append(out, cur1) ELSE out)
    ELSE LET x == Head(blocks)
         IN  IF cur1.i + cur1.size = x.i /\ cur1.j + cur1.size = x.j
             THEN MergeAdjacent(Tail(blocks),
                                [i |-> cur1.i, j |-> cur1.j, size |-> cur1.size + x.size],
                                out)
             ELSE MergeAdjacent(Tail(blocks), x,
                                IF cur1.size # 0 THEN Append(out, cur1) ELSE out)

\* get_matching_blocks(): the blocks in order, merged, then the sentinel
\* (len(a), len(b), 0)
get_matching_blocks(aa, bb, autojunk) ==
    LET found == MatchQueue(aa, bb, ChainB(bb, autojunk),
                            [queue |-> <<[alo |-> 0, ahi |-> Len(aa),
                                          blo |-> 0, bhi |-> Len(bb)]>>,
                             blocks |-> <<>>])
        merged == MergeAdjacent(SortBlocks(found), [i |-> 0, j |-> 0, size |-> 0], <<>>)
    IN  Append(merged, [i |-> Len(aa), j |-> Len(bb), size |-> 0])

RECURSIVE SumSizes(_)
SumSizes(blocks) ==
    IF blocks = <<>> THEN 0 ELSE Head(blocks).size + SumSizes(Tail(blocks))

\* ratio() without the factor 2.0
ratio_NoDouble(aa, bb, autojunk) ==
    LET matches == SumSizes(get_matching_blocks(aa, bb, autojunk))
        length == Len(aa) + Len(bb)
    IN  IF length # 0 THEN Quot(matches, length) ELSE One

\* ratio() over the length of the first sequence alone
ratio_OverFirstLength(aa, bb, autojunk) ==
    LET matches == SumSizes(get_matching_blocks(aa, bb, autojunk))
        length == Len(aa)
    IN  IF length # 0 THEN Quot(2 * matches, length) ELSE One

\* ratio(): 2.0 * matches / (len(a) + len(b)), and 1.0 for two empty sequences
ratio(aa, bb, autojunk) ==
    LET matches == SumSizes(get_matching_blocks(aa, bb, autojunk))
        length == Len(aa) + Len(bb)
    IN  IF length # 0 THEN Quot(2 * matches, length) ELSE One

\* str_similarity without .lower() on the first argument
str_similarity_NoLower(x, y) ==
    LET na == normalize_spaces(x)
        nb == Lower(normalize_spaces(y))
    IN  IF na = <<>> \/ nb = <<>> THEN Zero ELSE ratio(na, nb, TRUE)

\* str_similarity without the test "if not a or not b"
str_similarity_NoEmptyTest(x, y) ==
    ratio(Lower(normalize_spaces(x)), Lower(normalize_spaces(y)), TRUE)

\* str_similarity(a, b)
str_similarity(x, y) ==
    LET na == Lower(normalize_spaces(x))
        nb == Lower(normalize_spaces(y))
    IN  IF na = <<>> \/ nb = <<>> THEN Zero ELSE ratio(na, nb, TRUE)

-----------------------------------------------------------------------------
(* _tokenize_keep_spaces: _token_re.findall(s or ""), with the pattern     *)
(* \s+|[^\s]+ .                                                            *)

\* a match that stops after one character, as the pattern \s|[^\s] gives
RunEnd_OneChar(x, pos, space) == pos

\* how far a match of \s+ (space = TRUE) or [^\s]+ (space = FALSE) that starts
\* at position pos reaches: the run of characters of that class, to its end
RunEnd(x, pos, space) ==
    LET Other(i) == i >= pos /\ IsSpace(x[i]) # space
        others == SelectSeq([i \in 1..Len(x) |-> i], Other)
    IN  IF others = <<>> THEN Len(x) ELSE others[1] - 1

\* findall with the pattern [^\s]+ alone, which skips the whitespace
RECURSIVE FindAllWords(_, _)
FindAllWords(x, pos) ==
    IF pos > Len(x) THEN <<>>
    ELSE IF IsSpace(x[pos]) THEN FindAllWords(x, pos + 1)
    ELSE LET e == RunEnd(x, pos, FALSE)
         IN  <<SubSeq(x, pos, e)>> \o FindAllWords(x, e + 1)

\* findall from position pos: the alternative \s+ is tried first, then
\* [^\s]+; the next match starts where this one ends
RECURSIVE FindAll(_, _)
FindAll(x, pos) ==
    IF pos > Len(x) THEN <<>>
    ELSE LET e == RunEnd(x, pos, IsSpace(x[pos]))
         IN  <<SubSeq(x, pos, e)>> \o FindAll(x, e + 1)

\* s or ""
OrEmpty(v) == IF v.type = "NoneType" THEN <<>> ELSE v.val

\* the tokenizer with the pattern [^\s]+ alone
tokenize_WordsOnly(v) == FindAllWords(OrEmpty(v), 1)

_tokenize_keep_spaces(v) == FindAll(OrEmpty(v), 1)

\* "".join(parts)
Concat(parts) == Join(<<>>, parts)

-----------------------------------------------------------------------------
(* The calls of str_similarity: the arguments are drawn at the start, one  *)
(* step makes the call.                                                    *)

StringsUpTo(alphabet, n) == UNION {[1..k -> alphabet] : k \in 0..n}

\* the characters of the first argument, and those of the second
SimAlphabet == {"a", "s", "A", " "}
SimAlphabetB == {"a", "s", "ß", " "}

\* every short argument, and None
SimShortArgs == {PyStr(x) : x \in StringsUpTo(SimAlphabet, SimMaxLen)} \cup {PyNone}
SimShortArgsB == {PyStr(x) : x \in StringsUpTo(SimAlphabetB, SimMaxLen)} \cup {PyNone}

\* two arguments as long as the autojunk threshold
SimLongArgs ==
    {PyStr(<<c>> \o [i \in 1..(AutoJunkMinLen - 1) |-> "a"]) : c \in {"s", "a"}}

NoResult == Quot(-1, 1)

InitSim ==
    /\ pc = "sim_call"
    /\ a \in SimShortArgs \cup SimLongArgs
    /\ b \in SimShortArgsB \cup SimLongArgs
    /\ sim = NoResult
    /\ old = PyNone /\ new = PyNone /\ diff = <<>>
    /\ s = PyNone /\ toks = <<>>
    /\ df = <<>> /\ cur = 0 /\ cand = <<>>
    /\ calls = <<>> /\ frames = <<>>
    /\ ws = <<>> /\ lastcall = <<>> /\ upserts = <<>> /\ session_state = <<>> /\ ui = <<>>

\* sim = str_similarity(a, b)
StrSimilarity ==
    /\ pc = "sim_call"
    /\ sim' = str_similarity(a, b)
    /\ pc' = "sim_done"
    /\ UNCHANGED <<a, b, old, new, diff, s, toks, df, cur, cand, calls, frames,
                 ws, lastcall, upserts, session_state, ui>>

NextSim == StrSimilarity

SpecSim == InitSim /\ [][NextSim]_vars

\* the same calls, with a short first argument
InitSimShort == InitSim /\ a \in SimShortArgs

SpecSimShort == InitSimShort /\ [][NextSim]_vars

\* the arguments as str_similarity compares them
SimNorm(x) == Lower(normalize_spaces(x))

-----------------------------------------------------------------------------
(* C1: for all strings a and b, str_similarity(a, b) equals                *)
(* str_similarity(b, a).                                                   *)
C1_Symmetric ==
    pc = "sim_done" => FloatEq(sim, str_similarity(b, a))

-----------------------------------------------------------------------------
(* C6: when both normalized inputs are non-empty, str_similarity(a, b) is  *)
(* 2 * M / (len(a') + len(b')), where M is the total length of the blocks  *)
(* found by taking a longest common contiguous substring of a' and b' and  *)
(* recursing on the unmatched remainders to its left and to its right.     *)

\* x[i .. i+k-1] = y[j .. j+k-1], 1-based
CommonAt(x, y, i, j, k) == \A t \in 0..(k - 1) : x[i + t] = y[j + t]

\* where a common block of length k lies inside x[xl..xh] and y[yl..yh]
CommonPlaces(x, xl, xh, y, yl, yh, k) ==
    {p \in (xl..(xh - k + 1)) \X (yl..(yh - k + 1)) : CommonAt(x, y, p[1], p[2], k)}

\* the length of the longest common block of x[xl..xh] and y[yl..yh]
LongestCommon(x, xl, xh, y, yl, yh) ==
    LET most == IF xh - xl < yh - yl THEN xh - xl + 1 ELSE yh - yl + 1
    IN  Cardinality({k \in 1..most : CommonPlaces(x, xl, xh, y, yl, yh, k) # {}})

\* the totals M that the recursion can reach, over every choice of a longest
\* common block
RECURSIVE MatchTotals(_, _, _, _, _, _)
MatchTotals(x, xl, xh, y, yl, yh) ==
    IF xh < xl \/ yh < yl THEN {0}
    ELSE LET k == LongestCommon(x, xl, xh, y, yl, yh)
         IN  IF k = 0 THEN {0}
             ELSE UNION {{k + l + r :
                             l \in MatchTotals(x, xl, p[1] - 1, y, yl, p[2] - 1),
                             r \in MatchTotals(x, p[1] + k, xh, y, p[2] + k, yh)} :
                         p \in CommonPlaces(x, xl, xh, y, yl, yh, k)}

C6_RatioOfLongestCommonBlocks ==
    (pc = "sim_done" /\ SimNorm(a) # <<>> /\ SimNorm(b) # <<>>) =>
        \E m \in MatchTotals(SimNorm(a), 1, Len(SimNorm(a)), SimNorm(b), 1, Len(SimNorm(b))) :
            FloatEq(sim, Quot(2 * m, Len(SimNorm(a)) + Len(SimNorm(b))))

-----------------------------------------------------------------------------
(* C7: for every string a whose normalized form is non-empty,              *)
(* str_similarity(a, a) equals 1.0 (of each argument of the call, and of   *)
(* the call itself when its two arguments are the same string).            *)
C7_SelfSimilarityIsOne ==
    pc = "sim_done" =>
        /\ SimNorm(a) # <<>> => FloatEq(str_similarity(a, a), One)
        /\ SimNorm(b) # <<>> => FloatEq(str_similarity(b, b), One)
        /\ (a = b /\ SimNorm(a) # <<>>) => FloatEq(sim, One)

C7_Witness ==
    /\ pc = "sim_done"
    /\ a = b
    /\ Len(SimNorm(a)) = 3
    /\ FloatEq(sim, One)

-----------------------------------------------------------------------------
(* C8, as claimed: str_similarity(a, b) depends only on the                *)
(* whitespace-normalized, case-folded forms of a and b (norm_key), so it   *)
(* is the score of those forms, and two inputs with the same non-empty     *)
(* form score 1.0 against each other.                                      *)
C8_DependsOnCasefoldedForms ==
    pc = "sim_done" =>
        /\ FloatEq(sim, str_similarity(PyStr(norm_key(a)), PyStr(norm_key(b))))
        /\ (norm_key(a) = norm_key(b) /\ norm_key(a) # <<>>) => FloatEq(sim, One)

(* C8, amended: str_similarity(a, b) depends only on the                   *)
(* whitespace-normalized, lower-cased (str.lower, not casefold) forms of a *)
(* and b: it is the score of those forms, so inputs that differ only in    *)
(* ASCII letter case, in whitespace runs or in leading and trailing        *)
(* whitespace score alike against any string, and two inputs with the same *)
(* non-empty form score 1.0 against each other.                            *)
C8_DependsOnLoweredForms ==
    pc = "sim_done" =>
        /\ FloatEq(sim, str_similarity(PyStr(SimNorm(a)), PyStr(SimNorm(b))))
        /\ (SimNorm(a) = SimNorm(b) /\ SimNorm(a) # <<>>) => FloatEq(sim, One)

C8_Witness ==
    /\ pc = "sim_done"
    /\ a = PyStr(<<" ", "A", "s">>)
    /\ b = PyStr(<<"a", "s", " ">>)
    /\ FloatEq(sim, One)

-----------------------------------------------------------------------------
(* C9: if either input of str_similarity is empty after normalization, the *)
(* result is 0.0, whatever the other input is.                             *)
C9_EmptyInputScoresZero ==
    (pc = "sim_done" /\ (SimNorm(a) = <<>> \/ SimNorm(b) = <<>>)) => FloatEq(sim, Zero)

C9_Witness ==
    /\ pc = "sim_done"
    /\ a \in {PyNone, PyStr(<<" ", " ">>)}
    /\ SimNorm(b) # <<>>
    /\ FloatEq(sim, Zero)

-----------------------------------------------------------------------------
(* C10: for all inputs a and b, str_similarity(a, b) is a number in the    *)
(* closed interval [0.0, 1.0].                                             *)
C10_ScoreInUnitInterval ==
    pc = "sim_done" => FloatLe(Zero, sim) /\ FloatLe(sim, One)

C10_Witness ==
    /\ pc = "sim_done"
    /\ FloatLt(Zero, sim)
    /\ FloatLt(sim, One)

-----------------------------------------------------------------------------
(* The calls of _tokenize_keep_spaces.                                     *)

TokAlphabet == {"a", "b", " ", "\t"}

TokArgs == {PyStr(x) : x \in StringsUpTo(TokAlphabet, TokMaxLen)} \cup {PyNone}

InitTok ==
    /\ pc = "tok_call"
    /\ s \in TokArgs
    /\ toks = <<>>
    /\ a = PyNone /\ b = PyNone /\ sim = NoResult
    /\ old = PyNone /\ new = PyNone /\ diff = <<>>
    /\ df = <<>> /\ cur = 0 /\ cand = <<>>
    /\ calls = <<>> /\ frames = <<>>
    /\ ws = <<>> /\ lastcall = <<>> /\ upserts = <<>> /\ session_state = <<>> /\ ui = <<>>

\* toks = _tokenize_keep_spaces(s)
Tokenize ==
    /\ pc = "tok_call"
    /\ toks' = _tokenize_keep_spaces(s)
    /\ pc' = "tok_done"
    /\ UNCHANGED <<a, b, sim, old, new, diff, s, df, cur, cand, calls, frames,
                 ws, lastcall, upserts, session_state, ui>>

NextTok == Tokenize

SpecTok == InitTok /\ [][NextTok]_vars

-----------------------------------------------------------------------------
(* C4: for every string s, concatenating the tokens returned by            *)
(* _tokenize_keep_spaces(s) in order reproduces s exactly.                 *)
C4_TokensConcatenateToInput ==
    (pc = "tok_done" /\ s.type = "str") => Concat(toks) = s.val

C4_Witness ==
    /\ pc = "tok_done"
    /\ s = PyStr(<<"a", " ", "\t", "b">>)
    /\ toks = << <<"a">>, <<" ", "\t">>, <<"b">> >>

(* C18: every token of _tokenize_keep_spaces is non-empty and is made only *)
(* of whitespace or only of non-whitespace, two adjacent tokens are never  *)
(* of the same class (each is a maximal run), and a null or empty input    *)
(* gives no token.                                                         *)
C18_TokensAreMaximalRuns ==
    pc = "tok_done"
        => /\ \A k \in 1..Len(toks) :
                  /\ toks[k] # <<>>
                  /\ \/ \A i \in 1..Len(toks[k]) : IsSpace(toks[k][i])
                     \/ \A i \in 1..Len(toks[k]) : ~IsSpace(toks[k][i])
           /\ \A k \in 1..(Len(toks) - 1) :
                  IsSpace(toks[k][1]) # IsSpace(toks[k + 1][1])
           /\ (s = PyNone \/ s = PyStr(<<>>)) => toks = <<>>

C18_Witness ==
    /\ pc = "tok_done"
    /\ s = PyStr(<<" ", "\t", "a", "b">>)
    /\ toks = << <<" ", "\t">>, <<"a", "b">> >>

-----------------------------------------------------------------------------
(* diff_old_new_html(old, new): the word-level diff of the two cleaned     *)
(* strings, as a pair of HTML fragments.                                   *)

\* html.escape(t), quote=True
EscapeChar(c) ==
    CASE c = "&" -> <<"&", "a", "m", "p", ";">>
      [] c = "<" -> <<"&", "l", "t", ";">>
      [] c = ">" -> <<"&", "g", "t", ";">>
      [] c = "\"" -> <<"&", "q", "u", "o", "t", ";">>
      [] c = "'" -> <<"&", "#", "x", "2", "7", ";">>
      [] OTHER -> <<c>>
Escape(x) == Concat([i \in 1..Len(x) |-> EscapeChar(x[i])])

\* "".join(html.escape(t) for t in tokens[lo:hi])
EscapeJoin(tokens, lo, hi) ==
    Concat([k \in 1..(hi - lo) |-> Escape(tokens[lo + k])])

\* the markers of the f-strings
DelOpen == <<"<", "s", "p", "a", "n", " ", "c", "l", "a", "s", "s", "=", "'", "d", "i", "f", "f", "-", "d", "e", "l", "'", ">">>
InsOpen == <<"<", "s", "p", "a", "n", " ", "c", "l", "a", "s", "s", "=", "'", "d", "i", "f", "f", "-", "i", "n", "s", "'", ">">>
SpanClose == <<"<", "/", "s", "p", "a", "n", ">">>

\* get_opcodes with "i, j = ai, bj" in place of "i, j = ai+size, bj+size"
RECURSIVE OpcodesLoop_Stale(_, _, _, _)
OpcodesLoop_Stale(blocks, i, j, answer) ==
    IF blocks = <<>> THEN answer
    ELSE LET x == Head(blocks)
             tag == IF i < x.i /\ j < x.j THEN "replace"
                    ELSE IF i < x.i THEN "delete"
                    ELSE IF j < x.j THEN "insert"
                    ELSE ""
             a1 == IF tag # ""
                   THEN Append(answer, [tag |-> tag, i1 |-> i, i2 |-> x.i,
                                        j1 |-> j, j2 |-> x.j])
                   ELSE answer
             a2 == IF x.size # 0
                   THEN Append(a1, [tag |-> "equal", i1 |-> x.i, i2 |-> x.i + x.size,
                                    j1 |-> x.j, j2 |-> x.j + x.size])
                   ELSE a1
         IN  OpcodesLoop_Stale(Tail(blocks), x.i, x.j, a2)

\* get_opcodes, the loop "for ai, bj, size in self.get_matching_blocks()"
RECURSIVE OpcodesLoop(_, _, _, _)
OpcodesLoop(blocks, i, j, answer) ==
    IF blocks = <<>> THEN answer
    ELSE LET x == Head(blocks)
             tag == IF i < x.i /\ j < x.j THEN "replace"
                    ELSE IF i < x.i THEN "delete"
                    ELSE IF j < x.j THEN "insert"
                    ELSE ""
             a1 == IF tag # ""
                   THEN Append(answer, [tag |-> tag, i1 |-> i, i2 |-> x.i,
                                        j1 |-> j, j2 |-> x.j])
                   ELSE answer
             a2 == IF x.size # 0
                   THEN Append(a1, [tag |-> "equal", i1 |-> x.i, i2 |-> x.i + x.size,
                                    j1 |-> x.j, j2 |-> x.j + x.size])
                   ELSE a1
         IN  OpcodesLoop(Tail(blocks), x.i + x.size, x.j + x.size, a2)

\* get_opcodes(): the 5-tuples (tag, i1, i2, j1, j2)
get_opcodes(aa, bb, autojunk) ==
    OpcodesLoop(get_matching_blocks(aa, bb, autojunk), 0, 0, <<>>)

\* old_out.append where an equal span is wrapped like a deleted one
OldSegment_EqualMarked(ta, op) ==
    LET seg == EscapeJoin(ta, op.i1, op.i2)
    IN  IF op.tag \in {"equal", "delete", "replace"} /\ seg # <<>>
        THEN <<DelOpen \o seg \o SpanClose>>
        ELSE <<>>

\* what one opcode appends to old_out
OldSegment(ta, op) ==
    LET seg == EscapeJoin(ta, op.i1, op.i2)
    IN  IF op.tag = "equal" THEN <<seg>>
        ELSE IF op.tag \in {"delete", "replace"} /\ seg # <<>>
        THEN <<DelOpen \o seg \o SpanClose>>
        ELSE <<>>

\* new_out.append where the new side of a replace is wrapped in the
\* deletion marker
NewSegment_DelMarker(tb, op) ==
    LET seg == EscapeJoin(tb, op.j1, op.j2)
    IN  IF op.tag = "equal" THEN <<seg>>
        ELSE IF op.tag = "insert" /\ seg # <<>>
        THEN <<InsOpen \o seg \o SpanClose>>
        ELSE IF op.tag = "replace" /\ seg # <<>>
        THEN <<DelOpen \o seg \o SpanClose>>
        ELSE <<>>

\* new_out.append where every token of the span is wrapped on its own
NewSegment_PerToken(tb, op) ==
    LET seg == EscapeJoin(tb, op.j1, op.j2)
    IN  IF op.tag = "equal" THEN <<seg>>
        ELSE IF op.tag \in {"insert", "replace"} /\ seg # <<>>
        THEN [k \in 1..(op.j2 - op.j1) |->
                 InsOpen \o Escape(tb[op.j1 + k]) \o SpanClose]
        ELSE <<>>

\* what one opcode appends to new_out
NewSegment(tb, op) ==
    LET seg == EscapeJoin(tb, op.j1, op.j2)
    IN  IF op.tag = "equal" THEN <<seg>>
        ELSE IF op.tag \in {"insert", "replace"} /\ seg # <<>>
        THEN <<InsOpen \o seg \o SpanClose>>
        ELSE <<>>

\* the loop "for tag, i1, i2, j1, j2 in sm.get_opcodes()"
RECURSIVE DiffLoop(_, _, _, _, _)
DiffLoop(ta, tb, ops, old_out, new_out) ==
    IF ops = <<>> THEN <<Concat(old_out), Concat(new_out)>>
    ELSE DiffLoop(ta, tb, Tail(ops),
                  old_out \o OldSegment(ta, Head(ops)),
                  new_out \o NewSegment(tb, Head(ops)))

\* diff_old_new_html where a replace opcode is rendered on the new side only
RECURSIVE DiffLoop_ReplaceAsInsert(_, _, _, _, _)
DiffLoop_ReplaceAsInsert(ta, tb, ops, old_out, new_out) ==
    IF ops = <<>> THEN <<Concat(old_out), Concat(new_out)>>
    ELSE DiffLoop_ReplaceAsInsert(ta, tb, Tail(ops),
                  IF Head(ops).tag = "replace" THEN old_out
                  ELSE old_out \o OldSegment(ta, Head(ops)),
                  new_out \o NewSegment(tb, Head(ops)))
diff_ReplaceAsInsert(x, y) ==
    LET ta == _tokenize_keep_spaces(PyStr(to_clean_str(x)))
        tb == _tokenize_keep_spaces(PyStr(to_clean_str(y)))
    IN  DiffLoop_ReplaceAsInsert(ta, tb, get_opcodes(ta, tb, FALSE), <<>>, <<>>)

\* diff_old_new_html(old, new): the pair (old-marked, new-marked)
diff_old_new_html(x, y) ==
    LET ta == _tokenize_keep_spaces(PyStr(to_clean_str(x)))
        tb == _tokenize_keep_spaces(PyStr(to_clean_str(y)))
    IN  DiffLoop(ta, tb, get_opcodes(ta, tb, FALSE), <<>>, <<>>)

-----------------------------------------------------------------------------
(* The calls of diff_old_new_html.                                         *)

DiffAlphabet == {"a", "n", " ", "<"}

\* two longer arguments: three words, and two words two spaces apart
DiffLongArgs == {PyStr(<<"a", " ", "n", " ", "a">>), PyStr(<<"a", " ", " ", "a">>)}

DiffArgs ==
    {PyStr(x) : x \in StringsUpTo(DiffAlphabet, DiffMaxLen)}
        \cup DiffLongArgs \cup {PyNone}

InitDiff ==
    /\ pc = "diff_call"
    /\ old \in DiffArgs
    /\ new \in DiffArgs
    /\ diff = <<>>
    /\ a = PyNone /\ b = PyNone /\ sim = NoResult
    /\ s = PyNone /\ toks = <<>>
    /\ df = <<>> /\ cur = 0 /\ cand = <<>>
    /\ calls = <<>> /\ frames = <<>>
    /\ ws = <<>> /\ lastcall = <<>> /\ upserts = <<>> /\ session_state = <<>> /\ ui = <<>>

\* diff = diff_old_new_html(old, new)
DiffOldNewHtml ==
    /\ pc = "diff_call"
    /\ diff' = diff_old_new_html(old, new)
    /\ pc' = "diff_done"
    /\ UNCHANGED <<a, b, sim, old, new, s, toks, df, cur, cand, calls, frames,
                 ws, lastcall, upserts, session_state, ui>>

NextDiff == DiffOldNewHtml

SpecDiff == InitDiff /\ [][NextDiff]_vars

\* whether marker m starts at position p of x
StartsAt(x, p, m) ==
    /\ p + Len(m) - 1 <= Len(x)
    /\ SubSeq(x, p, p + Len(m) - 1) = m

\* x from position p on, with every marker removed
RECURSIVE StripMarkersFrom(_, _)
StripMarkersFrom(x, p) ==
    IF p > Len(x) THEN <<>>
    ELSE IF StartsAt(x, p, DelOpen) THEN StripMarkersFrom(x, p + Len(DelOpen))
    ELSE IF StartsAt(x, p, InsOpen) THEN StripMarkersFrom(x, p + Len(InsOpen))
    ELSE IF StartsAt(x, p, SpanClose) THEN StripMarkersFrom(x, p + Len(SpanClose))
    ELSE <<x[p]>> \o StripMarkersFrom(x, p + 1)
StripMarkers(x) == StripMarkersFrom(x, 1)

\* whether x holds a marker
HasMarker(x) == \E p \in 1..Len(x) : x[p] = "<"

RECURSIVE TextFrom(_, _, _, _)
TextFrom(x, p, inside, want) ==
    IF p > Len(x) THEN <<>>
    ELSE IF StartsAt(x, p, DelOpen) THEN TextFrom(x, p + Len(DelOpen), TRUE, want)
    ELSE IF StartsAt(x, p, InsOpen) THEN TextFrom(x, p + Len(InsOpen), TRUE, want)
    ELSE IF StartsAt(x, p, SpanClose) THEN TextFrom(x, p + Len(SpanClose), FALSE, want)
    ELSE (IF inside = want THEN <<x[p]>> ELSE <<>>) \o TextFrom(x, p + 1, inside, want)
UnmarkedText(x) == TextFrom(x, 1, FALSE, FALSE)
MarkedText(x) == TextFrom(x, 1, FALSE, TRUE)

\* whether m occurs in x
Contains(x, m) == \E p \in 1..Len(x) : StartsAt(x, p, m)

\* the opcodes of the call in the state, and those with a tag among tags
OpsOfCall ==
    get_opcodes(_tokenize_keep_spaces(PyStr(to_clean_str(old))),
                _tokenize_keep_spaces(PyStr(to_clean_str(new))), FALSE)
OpsTagged(tags) ==
    LET Tagged(op) == op.tag \in tags
    IN  SelectSeq(OpsOfCall, Tagged)

(* C13: every span classified equal appears unmarked in both outputs with  *)
(* the same text, so the unmarked spans of old-marked, in order, are those *)
(* of new-marked.                                                          *)
C13_EqualSpansUnmarkedInBoth ==
    pc = "diff_done"
        => LET ta == _tokenize_keep_spaces(PyStr(to_clean_str(old)))
               tb == _tokenize_keep_spaces(PyStr(to_clean_str(new)))
               eq == OpsTagged({"equal"})
           IN  /\ \A k \in 1..Len(eq) :
                      EscapeJoin(ta, eq[k].i1, eq[k].i2)
                          = EscapeJoin(tb, eq[k].j1, eq[k].j2)
               /\ UnmarkedText(diff[1])
                      = Concat([k \in 1..Len(eq) |-> EscapeJoin(ta, eq[k].i1, eq[k].i2)])
               /\ UnmarkedText(diff[2]) = UnmarkedText(diff[1])

C13_Witness ==
    /\ pc = "diff_done"
    /\ old = PyStr(<<"a", " ", "n", " ", "a">>)
    /\ new = PyStr(<<"a", " ", "a">>)
    /\ diff[1] = <<"a", " ">> \o DelOpen \o <<"n", " ">> \o SpanClose \o <<"a">>
    /\ diff[2] = <<"a", " ", "a">>

(* C14: tokens only in old (delete spans, the old side of replace spans)   *)
(* are wrapped in the deletion marker and appear in old-marked only, those *)
(* only in new (insert spans, the new side of replace spans) are wrapped   *)
(* in the insertion marker and appear in new-marked only; old-marked holds *)
(* no insertion marker, new-marked no deletion marker, and no marker wraps *)
(* an empty span.                                                          *)
C14_MarkersWrapOneSidedSpans ==
    pc = "diff_done"
        => LET ta == _tokenize_keep_spaces(PyStr(to_clean_str(old)))
               tb == _tokenize_keep_spaces(PyStr(to_clean_str(new)))
               del == OpsTagged({"delete", "replace"})
               ins == OpsTagged({"insert", "replace"})
           IN  /\ ~Contains(diff[1], InsOpen)
               /\ ~Contains(diff[2], DelOpen)
               /\ ~Contains(diff[1], DelOpen \o SpanClose)
               /\ ~Contains(diff[2], InsOpen \o SpanClose)
               /\ MarkedText(diff[1])
                      = Concat([k \in 1..Len(del) |-> EscapeJoin(ta, del[k].i1, del[k].i2)])
               /\ MarkedText(diff[2])
                      = Concat([k \in 1..Len(ins) |-> EscapeJoin(tb, ins[k].j1, ins[k].j2)])

C14_Witness ==
    /\ pc = "diff_done"
    /\ old = PyStr(<<"n", " ", "a">>)
    /\ new = PyStr(<<"a", " ", "<">>)
    /\ diff[1] = DelOpen \o <<"n">> \o SpanClose \o <<" ">> \o DelOpen \o <<"a">> \o SpanClose
    /\ diff[2] = InsOpen \o <<"a">> \o SpanClose \o <<" ">>
                     \o InsOpen \o <<"&", "l", "t", ";">> \o SpanClose

C20_WhitespaceTokensAligned ==
    pc = "diff_done"
        => LET co == to_clean_str(old)
               cn == to_clean_str(new)
               ta == _tokenize_keep_spaces(PyStr(co))
               tb == _tokenize_keep_spaces(PyStr(cn))
               ops == OpsOfCall
               w == Split(co)
               so == SubSeq(co, Len(w[1]) + 1, Len(co) - Len(w[2]))
               sn == SubSeq(cn, Len(w[1]) + 1, Len(cn) - Len(w[2]))
           IN  /\ Concat(ta) = co
               /\ Concat(tb) = cn
               /\ ops = <<>> => (ta = <<>> /\ tb = <<>>)
               /\ ops # <<>>
                      => /\ ops[1].i1 = 0 /\ ops[1].j1 = 0
                         /\ ops[Len(ops)].i2 = Len(ta)
                         /\ ops[Len(ops)].j2 = Len(tb)
                         /\ \A k \in 1..(Len(ops) - 1) :
                                /\ ops[k + 1].i1 = ops[k].i2
                                /\ ops[k + 1].j1 = ops[k].j2
               /\ (Len(w) = 2 /\ Split(cn) = w /\ co # cn)
                      => diff = << Escape(w[1]) \o DelOpen \o so \o SpanClose \o Escape(w[2]),
                                   Escape(w[1]) \o InsOpen \o sn \o SpanClose \o Escape(w[2]) >>

C20_Witness ==
    /\ pc = "diff_done"
    /\ old = PyStr(<<"a", " ", "a">>)
    /\ new = PyStr(<<"a", " ", " ", "a">>)
    /\ diff = << <<"a">> \o DelOpen \o <<" ">> \o SpanClose \o <<"a">>,
                 <<"a">> \o InsOpen \o <<" ", " ">> \o SpanClose \o <<"a">> >>

-----------------------------------------------------------------------------
(* The calls of str_similarity and diff_old_new_html with arguments that   *)
(* are not strings: None, NaN, an int, a float.                            *)

NonStrArgs == {PyNone, PyNaN, PyInt(1), PyInt(12), PyFloat(10), PyFloat(15)}

MixedArgs ==
    NonStrArgs \cup {PyStr(<<>>), PyStr(<<"1">>), PyStr(<<"1", "2">>),
                     PyStr(<<"1", ".", "5">>), PyStr(<<"n", "a", "n">>)}

InitMixed ==
    /\ \/ /\ pc = "sim_call"
          /\ a \in MixedArgs /\ b \in MixedArgs
          /\ old = PyNone /\ new = PyNone
       \/ /\ pc = "diff_call"
          /\ old \in MixedArgs /\ new \in MixedArgs
          /\ a = PyNone /\ b = PyNone
    /\ sim = NoResult /\ diff = <<>>
    /\ s = PyNone /\ toks = <<>>
    /\ df = <<>> /\ cur = 0 /\ cand = <<>>
    /\ calls = <<>> /\ frames = <<>>
    /\ ws = <<>> /\ lastcall = <<>> /\ upserts = <<>> /\ session_state = <<>> /\ ui = <<>>

NextMixed == StrSimilarity \/ DiffOldNewHtml

SpecMixed == InitMixed /\ [][NextMixed]_vars

\* "" in place of an argument that is not a string
EmptyFor(x) == IF x.type = "str" THEN x ELSE PyStr(<<>>)

(* C16: a null or non-string input of str_similarity or diff_old_new_html  *)
(* is treated exactly like the empty string: the result is that of the     *)
(* same call with "" in its place.                                         *)
C16_NonStringsAreEmpty ==
    /\ pc = "sim_done"
           => FloatEq(sim, str_similarity(EmptyFor(a), EmptyFor(b)))
    /\ pc = "diff_done"
           => diff = diff_old_new_html(EmptyFor(old), EmptyFor(new))

\* the string an argument stands for: "" for None and NaN, the decimal text
\* for a number
TextFor(x) ==
    IF x.type = "str" THEN x
    ELSE IF x = PyInt(1) THEN PyStr(<<"1">>)
    ELSE IF x = PyInt(12) THEN PyStr(<<"1", "2">>)
    ELSE IF x = PyFloat(10) THEN PyStr(<<"1">>)
    ELSE IF x = PyFloat(15) THEN PyStr(<<"1", ".", "5">>)
    ELSE PyStr(<<>>)

(* C16, amended: a missing input (None, NaN) is treated exactly like the   *)
(* empty string, and a number like its decimal text (12 like "12", 1.0     *)
(* like "1", 1.5 like "1.5"): the result is that of the same call with     *)
(* that string in its place.                                               *)
C16_MissingIsEmptyNumbersAreText ==
    /\ pc = "sim_done"
           => FloatEq(sim, str_similarity(TextFor(a), TextFor(b)))
    /\ pc = "diff_done"
           => diff = diff_old_new_html(TextFor(old), TextFor(new))

C16_Witness ==
    /\ pc = "diff_done"
    /\ old = PyNaN
    /\ new = PyFloat(10)
    /\ diff = << <<>>, InsOpen \o <<"1">> \o SpanClose >>

-----------------------------------------------------------------------------
(* "Suggerimenti simili": the rows of the catalog other than the selected  *)
(* one, ranked by their similarity to the selected row's description.      *)
(* df is the table load_df returns, a sequence of rows with the columns    *)
(* art_kart and art_desart already cleaned; cur is the position of the     *)
(* selected row; cand is the ranked table, each row with its position in   *)
(* df (the index label) and its score.                                     *)

\* head(300)
RankLimit == 300

\* matches.iloc[0]: the first row of df whose art_kart is the selected key
FullRow(d, c) ==
    LET key == to_clean_str(d[c].art_kart)
        first == CHOOSE i \in 1..Len(d) :
                     /\ to_clean_str(d[i].art_kart) = key
                     /\ \A j \in 1..(i - 1) : to_clean_str(d[j].art_kart) # key
    IN  d[first]

\* df[df["art_kart"].map(to_clean_str) != current_art_kart], with the column
\* __sim_current__
Base(d, c) ==
    LET current_art_kart == to_clean_str(FullRow(d, c).art_kart)
        current_art_desart == to_clean_str(FullRow(d, c).art_desart)
        Other(i) == to_clean_str(d[i].art_kart) # current_art_kart
        kept == SelectSeq([i \in 1..Len(d) |-> i], Other)
    IN  [k \in 1..Len(kept) |->
            [index |-> kept[k],
             art_kart |-> d[kept[k]].art_kart,
             art_desart |-> d[kept[k]].art_desart,
             sim |-> str_similarity(d[kept[k]].art_desart,
                                    PyStr(current_art_desart))]]

\* the orders of the positions 1..n
Orders(n) == {p \in [1..n -> 1..n] : \A i, j \in 1..n : i # j => p[i] # p[j]}

\* the place (from 0) row k of base takes when the rows are sorted by score
\* and rows of equal score keep their order
StablePlace(base, k, ascending) ==
    Cardinality({j \in 1..Len(base) :
                    \/ (IF ascending THEN FloatLt(base[j].sim, base[k].sim)
                                     ELSE FloatLt(base[k].sim, base[j].sim))
                    \/ FloatEq(base[j].sim, base[k].sim) /\ j < k})

\* the rows of base sorted by score, rows of equal score in their order
StableSorted(base, ascending) ==
    LET n == Len(base)
        place == [k \in 1..n |-> StablePlace(base, k, ascending)] \o <<>>
    IN  [i \in 1..n |-> base[CHOOSE k \in 1..n : place[k] = i - 1]] \o <<>>

\* the places of rows where a run of equal scores starts
TieStarts(rows) ==
    LET Starts(i) == i = 1 \/ ~FloatEq(rows[i].sim, rows[i - 1].sim)
    IN  SelectSeq([i \in 1..Len(rows) |-> i], Starts)

\* every order of the rows of the runs lo..hi, each run kept in its place
RECURSIVE TieOrders(_, _, _, _)
TieOrders(rows, starts, lo, hi) ==
    IF lo > hi THEN {<<>>}
    ELSE IF lo = hi
    THEN LET first == starts[lo]
             last == IF lo < Len(starts) THEN starts[lo + 1] - 1 ELSE Len(rows)
         IN  {[k \in 1..(last - first + 1) |-> rows[first + p[k] - 1]] :
                 p \in Orders(last - first + 1)}
    ELSE LET mid == (lo + hi) \div 2
         IN  {x \o y : x \in TieOrders(rows, starts, lo, mid),
                       y \in TieOrders(rows, starts, mid + 1, hi)}

\* sort_values(by, ascending=...): kind is left at its default, "quicksort",
\* which is not a stable sort, so rows of equal score come out in an order
\* the call does not fix
SortValues(base, ascending) ==
    LET rows == StableSorted(base, ascending)
        starts == TieStarts(rows)
    IN  TieOrders(rows, starts, 1, Len(starts))

\* sort_values with ascending left at its default, True
SortValuesDescending_Ascending(base) == SortValues(base, TRUE)

\* sort_values("__sim_current__", ascending=False)
SortValuesDescending(base) == SortValues(base, FALSE)

\* head(n) that keeps every row
HeadRows_NoLimit(rows, n) == rows

\* head(n): the first n rows, and for a negative n all but the last -n
HeadRows(rows, n) ==
    IF n >= 0 THEN SubSeq(rows, 1, IF Len(rows) < n THEN Len(rows) ELSE n)
    ELSE SubSeq(rows, 1, Len(rows) + n)

RankKeys == {<<"1">>, <<"2">>}
RankDescriptions == {<<>>, <<"a">>, <<"s">>, <<"a", "s">>}
RankRows == {[art_kart |-> PyStr(k), art_desart |-> PyStr(d)] :
                k \in RankKeys, d \in RankDescriptions}

\* a catalog with one candidate more than head(300) keeps: the row "1" and
\* RankLimit + 1 rows "2" whose descriptions "a", "aa", "aaa", ... all score
\* differently against "a", but for the last two, which are the same
RankLongTable ==
    [k \in 1..(RankLimit + 2) |->
        IF k = 1
        THEN [art_kart |-> PyStr(<<"1">>), art_desart |-> PyStr(<<"a">>)]
        ELSE [art_kart |-> PyStr(<<"2">>),
              art_desart |-> PyStr([i \in 1..(IF k = RankLimit + 2 THEN k - 2 ELSE k - 1)
                                       |-> "a"])]]

InitRank ==
    /\ pc = "rank_call"
    /\ \/ /\ df \in UNION {[1..n -> RankRows] : n \in 1..MaxRows}
          /\ cur \in 1..Len(df)
       \/ /\ df = RankLongTable
          /\ cur \in {1, 2}
    /\ cand = <<>>
    /\ calls = <<>> /\ frames = <<>>
    /\ ws = <<>> /\ lastcall = <<>> /\ upserts = <<>> /\ session_state = <<>> /\ ui = <<>>
    /\ a = PyNone /\ b = PyNone /\ sim = NoResult
    /\ old = PyNone /\ new = PyNone /\ diff = <<>>
    /\ s = PyNone /\ toks = <<>>

\* cand = base.sort_values("__sim_current__", ascending=False).head(300)
Rank ==
    /\ pc = "rank_call"
    /\ \E sorted \in SortValuesDescending(Base(df, cur)) :
           cand' = HeadRows(sorted, RankLimit)
    /\ pc' = "rank_done"
    /\ UNCHANGED <<a, b, sim, old, new, diff, s, toks, df, cur, calls, frames,
                 ws, lastcall, upserts, session_state, ui>>

NextRank == Rank

SpecRank == InitRank /\ [][NextRank]_vars

(* C3: the ranking orders the candidates by descending score and keeps     *)
(* candidates of equal score in their original order (a stable sort).      *)
C3_DescendingAndStable ==
    pc = "rank_done"
        => \A i, j \in 1..Len(cand) :
               i < j => \/ FloatLt(cand[j].sim, cand[i].sim)
                        \/ /\ FloatEq(cand[j].sim, cand[i].sim)
                           /\ cand[i].index < cand[j].index

(* C11: the ranked list is sorted by non-increasing score: of every two    *)
(* consecutive entries the earlier has a score greater than or equal to    *)
(* the later one's.                                                        *)
C11_SortedByNonIncreasingScore ==
    pc = "rank_done"
        => \A i \in 1..(Len(cand) - 1) : FloatLe(cand[i + 1].sim, cand[i].sim)

C11_Witness ==
    /\ pc = "rank_done"
    /\ Len(cand) >= 2
    /\ FloatLt(cand[2].sim, cand[1].sim)
    /\ cand[2].index < cand[1].index

\* the rows of df whose art_kart differs from the selected row's
OtherRows == {i \in 1..Len(df) :
                 to_clean_str(df[i].art_kart) # to_clean_str(df[cur].art_kart)}

(* C12: the ranked list has exactly min(300, number of candidates)         *)
(* entries, each a different candidate with its own score against the     *)
(* current description, the candidates being the rows of the catalog whose *)
(* art_kart differs from the selected row's.                               *)
C12_LengthAndEntries ==
    pc = "rank_done"
        => /\ Len(cand) = (IF Cardinality(OtherRows) < RankLimit
                           THEN Cardinality(OtherRows) ELSE RankLimit)
           /\ \A k \in 1..Len(cand) :
                  /\ cand[k].index \in OtherRows
                  /\ cand[k].art_kart = df[cand[k].index].art_kart
                  /\ cand[k].art_desart = df[cand[k].index].art_desart
                  /\ FloatEq(cand[k].sim,
                             str_similarity(df[cand[k].index].art_desart,
                                            FullRow(df, cur).art_desart))
           /\ \A k, l \in 1..Len(cand) : k # l => cand[k].index # cand[l].index

C12_Witness ==
    /\ pc = "rank_done"
    /\ Cardinality(OtherRows) = RankLimit + 1
    /\ Len(cand) = RankLimit

-----------------------------------------------------------------------------
(* Concurrent calls of str_similarity and diff_old_new_html: each thread   *)
(* makes its calls one after the other, a call runs statement by           *)
(* statement, and the statements of different threads interleave.          *)
(* calls[t] is thread t's current call: the function, the arguments, the   *)
(* statement it is at, and the value it returned.  frames holds the local  *)
(* variables of the calls: a, b of str_similarity, and old, new and the    *)
(* token lists a, b (tokens_a, tokens_b here) of diff_old_new_html.        *)

\* one frame of local variables for all the calls, as module-level variables
\* would be
Frame_Global(t) == 1

\* the frame of the call thread t is running: every call has its own
Frame(t) == t

\* the argument pairs of the calls
ConcArgs == {<<PyStr(<<"a", " ", "s">>), PyStr(<<" ", "A">>)>>,
             <<PyStr(<<" ", "A">>), PyStr(<<" ", "A">>)>>}

NoFrame == [a |-> PyNone, b |-> PyNone, old |-> PyNone, new |-> PyNone,
            tokens_a |-> <<>>, tokens_b |-> <<>>]

NoCall == [pc |-> "idle", fn |-> "none", x |-> PyNone, y |-> PyNone, n |-> 0,
           returned |-> FALSE, sim |-> NoResult, diff |-> <<>>]

InitConc ==
    /\ pc = "serving"
    /\ calls = [t \in 1..ConcThreads |-> NoCall]
    /\ frames = [f \in 1..ConcThreads |-> NoFrame]
    /\ ws = <<>> /\ lastcall = <<>> /\ upserts = <<>> /\ session_state = <<>> /\ ui = <<>>
    /\ a = PyNone /\ b = PyNone /\ sim = NoResult
    /\ old = PyNone /\ new = PyNone /\ diff = <<>>
    /\ s = PyNone /\ toks = <<>>
    /\ df = <<>> /\ cur = 0 /\ cand = <<>>

Unused == <<pc, a, b, sim, old, new, diff, s, toks, df, cur, cand,
           ws, lastcall, upserts, session_state, ui>>

\* thread t calls str_similarity(x, y): the parameters a, b are bound
CallSim(t) ==
    /\ calls[t].pc = "idle"
    /\ calls[t].n < MaxCalls
    /\ \E xy \in ConcArgs :
           /\ calls' = [calls EXCEPT ![t] =
                           [pc |-> "sim_114", fn |-> "str_similarity",
                            x |-> xy[1], y |-> xy[2],
                            n |-> calls[t].n + 1, returned |-> FALSE,
                            sim |-> NoResult, diff |-> <<>>]]
           /\ frames' = [frames EXCEPT ![Frame(t)] = [NoFrame EXCEPT !.a = xy[1], !.b = xy[2]]]
    /\ UNCHANGED Unused

\* a = normalize_spaces(a).lower()
Sim114(t) ==
    /\ calls[t].pc = "sim_114"
    /\ frames' = [frames EXCEPT ![Frame(t)].a =
                     PyStr(Lower(normalize_spaces(frames[Frame(t)].a)))]
    /\ calls' = [calls EXCEPT ![t].pc = "sim_115"]
    /\ UNCHANGED Unused

\* b = normalize_spaces(b).lower()
Sim115(t) ==
    /\ calls[t].pc = "sim_115"
    /\ frames' = [frames EXCEPT ![Frame(t)].b =
                     PyStr(Lower(normalize_spaces(frames[Frame(t)].b)))]
    /\ calls' = [calls EXCEPT ![t].pc = "sim_116"]
    /\ UNCHANGED Unused

\* if not a or not b: return 0.0;  return SequenceMatcher(None, a, b).ratio()
Sim116(t) ==
    /\ calls[t].pc = "sim_116"
    /\ LET f == frames[Frame(t)]
       IN  calls' = [calls EXCEPT ![t].pc = "idle", ![t].returned = TRUE,
                         ![t].sim = IF f.a.val = <<>> \/ f.b.val = <<>> THEN Zero
                                    ELSE ratio(f.a.val, f.b.val, TRUE)]
    /\ UNCHANGED frames
    /\ UNCHANGED Unused

\* thread t calls diff_old_new_html(x, y): the parameters old, new are bound
CallDiff(t) ==
    /\ calls[t].pc = "idle"
    /\ calls[t].n < MaxCalls
    /\ \E xy \in ConcArgs :
           /\ calls' = [calls EXCEPT ![t] =
                           [pc |-> "diff_126", fn |-> "diff_old_new_html",
                            x |-> xy[1], y |-> xy[2],
                            n |-> calls[t].n + 1, returned |-> FALSE,
                            sim |-> NoResult, diff |-> <<>>]]
           /\ frames' = [frames EXCEPT ![Frame(t)] = [NoFrame EXCEPT !.old = xy[1], !.new = xy[2]]]
    /\ UNCHANGED Unused

\* a = _tokenize_keep_spaces(to_clean_str(old))
Diff126(t) ==
    /\ calls[t].pc = "diff_126"
    /\ frames' = [frames EXCEPT ![Frame(t)].tokens_a =
                     _tokenize_keep_spaces(PyStr(to_clean_str(frames[Frame(t)].old)))]
    /\ calls' = [calls EXCEPT ![t].pc = "diff_127"]
    /\ UNCHANGED Unused

\* b = _tokenize_keep_spaces(to_clean_str(new))
Diff127(t) ==
    /\ calls[t].pc = "diff_127"
    /\ frames' = [frames EXCEPT ![Frame(t)].tokens_b =
                     _tokenize_keep_spaces(PyStr(to_clean_str(frames[Frame(t)].new)))]
    /\ calls' = [calls EXCEPT ![t].pc = "diff_128"]
    /\ UNCHANGED Unused

\* sm = SequenceMatcher(a=a, b=b, autojunk=False), the loop over the opcodes,
\* and the return
Diff128(t) ==
    /\ calls[t].pc = "diff_128"
    /\ LET f == frames[Frame(t)]
       IN  calls' = [calls EXCEPT ![t].pc = "idle", ![t].returned = TRUE,
                         ![t].diff = DiffLoop(f.tokens_a, f.tokens_b,
                                              get_opcodes(f.tokens_a, f.tokens_b, FALSE),
                                              <<>>, <<>>)]
    /\ UNCHANGED frames
    /\ UNCHANGED Unused

NextConc ==
    \E t \in 1..ConcThreads :
        \/ CallSim(t) \/ Sim114(t) \/ Sim115(t) \/ Sim116(t)
        \/ CallDiff(t) \/ Diff126(t) \/ Diff127(t) \/ Diff128(t)

SpecConc == InitConc /\ [][NextConc]_vars

(* C17: str_similarity and diff_old_new_html keep no state between calls   *)
(* and share none: under every interleaving of concurrent calls, each call *)
(* returns what it returns when it runs alone on its own arguments.        *)
C17_CallsDoNotInterfere ==
    \A t \in 1..ConcThreads :
        calls[t].returned
            => /\ calls[t].fn = "str_similarity"
                   => FloatEq(calls[t].sim, str_similarity(calls[t].x, calls[t].y))
               /\ calls[t].fn = "diff_old_new_html"
                   => calls[t].diff = diff_old_new_html(calls[t].x, calls[t].y)

C17_Witness ==
    /\ calls[1].returned
    /\ calls[1].n = MaxCalls
    /\ calls[1].fn = "diff_old_new_html"
    /\ calls[1].x # calls[1].y
    /\ calls[2].pc = "sim_115"
    /\ calls[2].x = calls[2].y

-----------------------------------------------------------------------------
(* The origin worksheet and the DATA WRITE block (ensure_headers,          *)
(* find_row_number_by_art_kart_ws, upsert_in_source,                       *)
(* batch_find_replace_generic).  A worksheet is the sequence of its rows,  *)
(* row 1 being the header; a row is the sequence of its cells and a cell   *)
(* is the text gspread reads from it and writes to it.  Trailing empty     *)
(* cells and trailing empty rows are not kept, as the Sheets API returns   *)
(* none of them.  Rows and columns are numbered from 1, as gspread does.   *)

\* the names of the columns
c_art_kart == <<"a", "r", "t", "_", "k", "a", "r", "t">>
c_art_desart == <<"a", "r", "t", "_", "d", "e", "s", "a", "r", "t">>
c_DescrizioneAffinata ==
    <<"D", "e", "s", "c", "r", "i", "z", "i", "o", "n", "e",
      "A", "f", "f", "i", "n", "a", "t", "a">>
c_Azienda == <<"A", "z", "i", "e", "n", "d", "a">>
c_Prodotto == <<"P", "r", "o", "d", "o", "t", "t", "o">>
c_gradazione == <<"g", "r", "a", "d", "a", "z", "i", "o", "n", "e">>
c_annata == <<"a", "n", "n", "a", "t", "a">>
c_Packaging == <<"P", "a", "c", "k", "a", "g", "i", "n", "g">>
c_Note == <<"N", "o", "t", "e">>
c_URL_immagine == <<"U", "R", "L", "_", "i", "m", "m", "a", "g", "i", "n", "e">>
c_art_desart_precedente == c_art_desart \o <<"_", "p", "r", "e", "c", "e", "d", "e", "n", "t", "e">>

WRITE_COLS ==
    <<c_art_kart, c_Azienda, c_Prodotto, c_gradazione, c_annata, c_Packaging,
      c_Note, c_URL_immagine, c_art_desart_precedente>>

RESULT_COLS == <<c_art_kart, c_art_desart, c_DescrizioneAffinata, c_URL_immagine>>

SELECT_FIELDS ==
    <<c_Azienda, c_Prodotto, c_gradazione, c_annata, c_Packaging, c_Note>>

Max2(x, y) == IF x > y THEN x ELSE y
Indices(q) == [i \in 1..Len(q) |-> i]
Range(q) == {q[i] : i \in 1..Len(q)}

\* a row without its trailing empty cells (a sheet without its trailing
\* empty rows)
TrimRow(r) ==
    LET NotEmpty(i) == r[i] # <<>>
        keep == SelectSeq(Indices(r), NotEmpty)
    IN  IF keep = <<>> THEN <<>> ELSE SubSeq(r, 1, keep[Len(keep)])

Canon(w) == TrimRow([i \in 1..Len(w) |-> TrimRow(w[i])])

\* ws.acell(a1).value or "", a1 being rowcol_to_a1(r, c)
ws_acell(w, r, c) ==
    IF r <= Len(w) THEN (IF c <= Len(w[r]) THEN w[r][c] ELSE <<>>) ELSE <<>>

\* ws.row_values(r) or []
ws_row_values(w, r) == IF r <= Len(w) THEN TrimRow(w[r]) ELSE <<>>

\* ws.col_values(c)
ws_col_values(w, c) == TrimRow([r \in 1..Len(w) |-> ws_acell(w, r, c)])

\* ws.update(range, [vals]): the cells of row r from column c on take vals
ws_update(w, r, c, vals) ==
    Canon([i \in 1..Max2(Len(w), r) |->
              IF i # r THEN (IF i <= Len(w) THEN w[i] ELSE <<>>)
              ELSE [j \in 1..Max2(Len(ws_row_values(w, r)), c + Len(vals) - 1) |->
                       IF j >= c /\ j < c + Len(vals) THEN vals[j - c + 1]
                       ELSE ws_acell(w, r, j)]])

\* ws.append_row(row): the row goes below the last row that holds a value
ws_append_row(w, row) == Canon(Canon(w) \o <<row>>)

\* list(dict.fromkeys(q)): the first occurrence of every element, in order
DictFromKeys(q) ==
    LET First(i) == \A j \in 1..(i - 1) : q[j] # q[i]
        keep == SelectSeq(Indices(q), First)
    IN  [k \in 1..Len(keep) |-> q[keep[k]]]

\* the loop of ensure_headers over required_cols; e holds header, norm,
\* col_map and changed
RECURSIVE ensure_headers_loop(_, _)
ensure_headers_loop(e, required_cols) ==
    IF required_cols = <<>> THEN e
    ELSE LET col == Head(required_cols)
             col_norm == Lower(Strip(col))
             Hit(i) == e.norm[i] = col_norm
             hits == SelectSeq(Indices(e.norm), Hit)
         IN  ensure_headers_loop(
                 IF hits # <<>>
                 THEN [e EXCEPT !.col_map = (col :> hits[1]) @@ e.col_map]
                 ELSE [header |-> Append(e.header, col),
                       norm |-> Append(e.norm, col_norm),
                       col_map |-> (col :> (Len(e.header) + 1)) @@ e.col_map,
                       changed |-> TRUE],
                 Tail(required_cols))

\* ensure_headers up to its write: the header read, and what the loop makes
\* of it
ensure_headers_scan(w, required_cols) ==
    LET header == ws_row_values(w, 1)
    IN  ensure_headers_loop(
            [header |-> header,
             norm |-> [i \in 1..Len(header) |-> Lower(Strip(header[i]))],
             col_map |-> EmptyMap,
             changed |-> FALSE],
            required_cols)

\* ensure_headers that writes the normalised names
ensure_headers_WritesNorm(w, required_cols) ==
    LET e == ensure_headers_scan(w, required_cols)
    IN  [ws |-> IF e.changed THEN ws_update(w, 1, 1, e.norm) ELSE w,
         col_map |-> e.col_map,
         changed |-> e.changed]

\* ensure_headers: the worksheet it leaves, the col_map it returns, and
\* whether it wrote the header row
ensure_headers(w, required_cols) ==
    LET e == ensure_headers_scan(w, required_cols)
    IN  [ws |-> IF e.changed THEN ws_update(w, 1, 1, e.header) ELSE w,
         col_map |-> e.col_map,
         changed |-> e.changed]

\* find_row_number_by_art_kart_ws; 0 stands for None
find_row_number_by_art_kart_ws(w, col_map, key) ==
    LET col_idx == MapGet(col_map, c_art_kart, 0)
    IN  IF col_idx = 0 THEN 0
        ELSE LET art_val == to_clean_str(key)
                 col_vals == ws_col_values(w, col_idx)
                 Hit(i) == i >= 2 /\ to_clean_str(PyStr(col_vals[i])) = art_val
                 hits == SelectSeq(Indices(col_vals), Hit)
             IN  IF hits = <<>> THEN 0 ELSE hits[1]

\* a call of upsert_in_source(ws, values_map, art_desart_current) that has
\* not started: its local variables, and the statement it is at
UpsertCall(values_map, art_desart_current) ==
    [pc |-> "ensure_read",
     values_map |-> values_map,
     art_desart_current |-> art_desart_current,
     header |-> <<>>, col_map |-> EmptyMap, changed |-> FALSE,
     art_val |-> <<>>, row_number |-> 0, i |-> 0, new_row |-> <<>>,
     result |-> "", raised |-> ""]

\* new_row with the values of WRITE_COLS in the order of WRITE_COLS, from the
\* first column on
NewRow_InOrder(full_len, col_map, values_map) ==
    [j \in 1..Max2(full_len, Len(WRITE_COLS)) |->
        IF j <= Len(WRITE_COLS)
        THEN to_clean_str(PyStr(MapGet(values_map, WRITE_COLS[j], <<>>)))
        ELSE <<>>]

\* new_row: "" in every column of the header, and the values of WRITE_COLS
\* at the places col_map gives
NewRow(full_len, col_map, values_map) ==
    [j \in 1..full_len |->
        LET At(k) == WRITE_COLS[k] \in DOMAIN col_map /\ col_map[WRITE_COLS[k]] = j
            at == SelectSeq(Indices(WRITE_COLS), At)
        IN  IF at = <<>> THEN <<>>
            ELSE to_clean_str(PyStr(MapGet(values_map, WRITE_COLS[at[Len(at)]], <<>>)))]

\* upsert_in_source that looks the key up and appends all the same
UpsertAfterFind_Both(f) == "row_values"

\* where upsert_in_source goes after the lookup
UpsertAfterFind(f) == IF f.row_number # 0 THEN "update" ELSE "row_values"

\* one step of upsert_in_source: from one call on the worksheet to the next
UpsertStep(w, f) ==
    CASE f.pc = "ensure_read" ->
            \* header = ws.row_values(1) and the loop of ensure_headers
            LET e == ensure_headers_scan(w, DictFromKeys(WRITE_COLS \o <<c_art_kart>>))
            IN  [ws |-> w,
                 f |-> [f EXCEPT !.header = e.header, !.col_map = e.col_map,
                                 !.changed = e.changed,
                                 !.pc = IF e.changed THEN "ensure_write" ELSE "check"]]
      [] f.pc = "ensure_write" ->
            \* ws.update(rng, [header]) of ensure_headers
            [ws |-> ws_update(w, 1, 1, f.header), f |-> [f EXCEPT !.pc = "check"]]
      [] f.pc = "check" ->
            \* art_val, the test on it, and the cleaned values_map
            LET art_val == to_clean_str(MapGet(f.values_map, c_art_kart, PyStr(<<>>)))
            IN  IF art_val = <<>>
                THEN [ws |-> w,
                      f |-> [f EXCEPT !.pc = "done",
                                      !.raised = "Campo 'art_kart' obbligatorio."]]
                ELSE [ws |-> w,
                      f |-> [f EXCEPT
                               !.art_val = art_val,
                               !.values_map =
                                   (c_art_desart_precedente :> to_clean_str(f.art_desart_current))
                                   @@ [k \in DOMAIN f.values_map |-> to_clean_str(f.values_map[k])],
                               !.pc = "find"]]
      [] f.pc = "find" ->
            \* row_number = find_row_number_by_art_kart_ws(ws, col_map, art_val)
            LET g == [f EXCEPT !.row_number =
                         find_row_number_by_art_kart_ws(w, f.col_map, PyStr(f.art_val))]
            IN  [ws |-> w, f |-> [g EXCEPT !.i = 1, !.pc = UpsertAfterFind(g)]]
      [] f.pc = "update" ->
            \* ws.update(a1, [[value]]) for the column WRITE_COLS[i]
            LET col == WRITE_COLS[f.i]
                last == f.i = Len(WRITE_COLS)
            IN  [ws |-> ws_update(w, f.row_number, f.col_map[col],
                                  <<to_clean_str(PyStr(MapGet(f.values_map, col, <<>>)))>>),
                 f |-> [f EXCEPT !.i = f.i + 1,
                                 !.pc = IF last THEN "done" ELSE "update",
                                 !.result = IF last THEN "updated" ELSE ""]]
      [] f.pc = "row_values" ->
            \* header = ws.row_values(1) or [] and the new row
            LET full_len == Len(ws_row_values(w, 1))
            IN  IF \E col \in Range(WRITE_COLS) :
                       col \in DOMAIN f.col_map /\ f.col_map[col] > full_len
                THEN [ws |-> w, f |-> [f EXCEPT !.pc = "done", !.raised = "IndexError"]]
                ELSE [ws |-> w,
                      f |-> [f EXCEPT !.new_row = NewRow(full_len, f.col_map, f.values_map),
                                      !.pc = "append_row"]]
      [] f.pc = "append_row" ->
            \* ws.append_row(new_row)
            [ws |-> ws_append_row(w, f.new_row),
             f |-> [f EXCEPT !.pc = "done", !.result = "added"]]

\* the steps of one call, with no other call in between
RECURSIVE UpsertRun(_)
UpsertRun(n) == IF n.f.pc = "done" THEN n ELSE UpsertRun(UpsertStep(n.ws, n.f))

\* upsert_in_source: the worksheet it leaves, and in f what it returned
\* (result) or raised
upsert_in_source(w, values_map, art_desart_current) ==
    UpsertRun([ws |-> w, f |-> UpsertCall(values_map, art_desart_current)])

\* the findReplace request of batch_find_replace_generic: below the header,
\* in column col_idx, a cell that is find as a whole, letter case aside,
\* becomes replacement
FindReplace(w, col_idx, find, replacement) ==
    Canon([r \in 1..Len(w) |->
              IF r = 1 \/ Lower(ws_acell(w, r, col_idx)) # Lower(find) \/ find = <<>>
              THEN w[r]
              ELSE [j \in 1..Max2(Len(w[r]), col_idx) |->
                       IF j = col_idx THEN replacement ELSE ws_acell(w, r, j)]])

\* batch_find_replace_generic: the worksheet it leaves
batch_find_replace_generic(w, col_name, old_value, new_value) ==
    LET h == ensure_headers(w, <<col_name>>)
    IN  FindReplace(h.ws, h.col_map[col_name],
                    normalize_spaces(old_value), normalize_spaces(new_value))

-----------------------------------------------------------------------------
(* The worksheet under calls of ensure_headers and upsert_in_source by one *)
(* session.  lastcall records the last call: its arguments, the worksheet *)
(* before it, and what it returned or raised.                              *)

\* most calls made on one worksheet
MaxSheetCalls == 2

Txt1 == <<"1">>
Txt2 == <<"2">>

\* a data row under FullHeader
DataRow(key, desart, azienda, note, prev) ==
    <<key, desart, azienda, <<>>, <<>>, <<>>, <<>>, note, <<>>, prev>>

\* art_kart, art_desart, and the other columns of WRITE_COLS
FullHeader == <<c_art_kart, c_art_desart>> \o Tail(WRITE_COLS)

\* the catalog with every column, two articles
SheetFull ==
    <<FullHeader,
      DataRow(Txt1, <<"d">>, <<"x">>, <<"n">>, <<>>),
      DataRow(Txt2, <<"e">>, <<"x">>, <<>>, <<"e">>)>>

\* two rows with the same key, one of them written with a space
SheetTwice ==
    <<FullHeader,
      DataRow(Txt2, <<"e">>, <<"y">>, <<>>, <<>>),
      DataRow(<<" ", "1">>, <<"d">>, <<"x">>, <<"n">>, <<>>),
      DataRow(Txt1, <<"d">>, <<"y">>, <<>>, <<>>)>>

\* a header in other letter case, with spaces, an empty cell and a repeated
\* name, and without most columns of WRITE_COLS
SheetOdd ==
    <<<<<<" ", "N", "O", "T", "E">>, <<>>, <<"A", "r", "t", "_", "K", "a", "r", "t", " ">>,
        <<"n", "o", "t", "e">>>>,
      <<<<"n">>, <<"q">>, Txt1>>>>

\* a worksheet with nothing in it
SheetEmpty == <<>>

SheetInits == {Canon(SheetFull), Canon(SheetTwice), Canon(SheetOdd), SheetEmpty}

\* the required_cols of the calls of ensure_headers
RequiredArgs ==
    {WRITE_COLS,
     <<c_Note>>,
     <<<<"n", "o", "t", "e", " ">>, c_Azienda, <<"A", "Z", "I", "E", "N", "D", "A">>>>,
     <<c_Packaging, c_Note, c_Packaging>>}

\* the values_map of the calls of upsert_in_source: a key or none, and a Note
\* or none
KeyArgs == {PyStr(Txt1), PyStr(<<"1", " ">>), PyStr(<<"3">>), PyInt(2), PyStr(<<>>), PyNone}
ValuesMapArgs ==
    {EmptyMap, (c_Note :> PyStr(<<"m">>))}
        \cup {(c_art_kart :> k) @@ (c_Note :> PyStr(<<"m", " ">>)) : k \in KeyArgs}
        \cup {(c_art_kart :> PyStr(Txt1)) @@ (c_art_desart_precedente :> PyStr(<<"p">>))}

\* the arguments (values_map, art_desart_current) of the calls of
\* upsert_in_source: the description as it is read from the table, and with
\* a space before it, and empty
UpsertArgs ==
    {<<values_map, PyStr(<<"d">>)>> : values_map \in ValuesMapArgs}
        \cup {<<(c_art_kart :> PyStr(Txt1)) @@ (c_Note :> PyStr(<<"m">>)), PyStr(<<" ", "d">>)>>,
              <<(c_art_kart :> PyStr(<<"3">>)), PyStr(<<>>)>>}

NoOp ==
    [name |-> "", n |-> 0, before |-> <<>>, required_cols |-> <<>>,
     col_map |-> EmptyMap, changed |-> FALSE, values_map |-> EmptyMap,
     art_desart_current |-> PyNone, result |-> "", raised |-> ""]

\* the state of the text helpers, which the worksheet does not touch
HelperVars == <<a, b, sim, old, new, diff, s, toks, df, cur, cand, calls, frames>>

HelpersIdle ==
    /\ a = PyNone /\ b = PyNone /\ sim = NoResult
    /\ old = PyNone /\ new = PyNone /\ diff = <<>>
    /\ s = PyNone /\ toks = <<>>
    /\ df = <<>> /\ cur = 0 /\ cand = <<>>
    /\ calls = <<>> /\ frames = <<>>

InitSheet ==
    /\ pc = "sheet"
    /\ ws \in SheetInits
    /\ lastcall = NoOp
    /\ upserts = <<>> /\ session_state = <<>> /\ ui = <<>>
    /\ HelpersIdle

\* col_map = ensure_headers(ws, required_cols)
EnsureHeaders ==
    /\ pc = "sheet"
    /\ lastcall.n < MaxSheetCalls
    /\ \E required_cols \in RequiredArgs :
           LET h == ensure_headers(ws, required_cols)
           IN  /\ ws' = h.ws
               /\ lastcall' = [NoOp EXCEPT !.name = "ensure_headers", !.n = lastcall.n + 1,
                                     !.before = ws, !.required_cols = required_cols,
                                     !.col_map = h.col_map, !.changed = h.changed]
    /\ UNCHANGED <<pc, upserts, session_state, ui>>
    /\ UNCHANGED HelperVars

\* upsert_in_source(ws, values_map, art_desart_current)
UpsertInSource ==
    /\ pc = "sheet"
    /\ lastcall.n < MaxSheetCalls
    /\ \E args \in UpsertArgs :
           LET u == upsert_in_source(ws, args[1], args[2])
           IN  /\ ws' = u.ws
               /\ lastcall' = [NoOp EXCEPT !.name = "upsert_in_source", !.n = lastcall.n + 1,
                                     !.before = ws, !.values_map = args[1],
                                     !.art_desart_current = args[2],
                                     !.col_map = u.f.col_map, !.changed = u.f.changed,
                                     !.result = u.f.result, !.raised = u.f.raised]
    /\ UNCHANGED <<pc, upserts, session_state, ui>>
    /\ UNCHANGED HelperVars

NextSheet == EnsureHeaders \/ UpsertInSource

SpecSheet == InitSheet /\ [][NextSheet]_vars

\* the first column of a header whose name is col, letter case and
\* surrounding spaces aside; 0 when there is none
FirstHeader(header, col) ==
    LET Same(i) == Lower(Strip(header[i])) = Lower(Strip(col))
        same == SelectSeq(Indices(header), Same)
    IN  IF same = <<>> THEN 0 ELSE same[1]

\* the names of required_cols that a header lacks, each once, in the order
\* given
MissingCols(header, required_cols) ==
    LET Lacking(i) ==
            /\ FirstHeader(header, required_cols[i]) = 0
            /\ FirstHeader(SubSeq(required_cols, 1, i - 1), required_cols[i]) = 0
        lacking == SelectSeq(Indices(required_cols), Lacking)
    IN  [k \in 1..Len(lacking) |-> required_cols[lacking[k]]]

\* C29: ensure_headers is append-only and idempotent: the header it leaves
\* is the header it found followed by the missing columns in the order
\* given, no other row changes, every required column is mapped to the first
\* header equal to it (letter case and surrounding spaces aside), and a
\* second call with the same columns writes nothing and returns the same map
C29_AppendOnlyAndIdempotent ==
    lastcall.name = "ensure_headers" =>
        LET before == ws_row_values(lastcall.before, 1)
            after == ws_row_values(ws, 1)
            again == ensure_headers(ws, lastcall.required_cols)
        IN  /\ after = before \o MissingCols(before, lastcall.required_cols)
            /\ lastcall.changed = (after # before)
            /\ \A r \in 2..Max2(Len(ws), Len(lastcall.before)) :
                   ws_row_values(ws, r) = ws_row_values(lastcall.before, r)
            /\ DOMAIN lastcall.col_map = Range(lastcall.required_cols)
            /\ \A col \in Range(lastcall.required_cols) :
                   /\ lastcall.col_map[col] = FirstHeader(after, col)
                   /\ lastcall.col_map[col] # 0
            /\ ~again.changed
            /\ again.ws = ws
            /\ again.col_map = lastcall.col_map

\* a call that found columns under other spellings and appended others to a
\* header with an empty cell
C29_Witness ==
    /\ lastcall.name = "ensure_headers"
    /\ lastcall.changed
    /\ \E col \in Range(lastcall.required_cols) :
           /\ lastcall.col_map[col] <= Len(ws_row_values(lastcall.before, 1))
           /\ ws_acell(ws, 1, lastcall.col_map[col]) # col
    /\ \E i \in 1..Len(ws_row_values(lastcall.before, 1)) : ws_acell(ws, 1, i) = <<>>

\* values_map.get(col, ""), cleaned
CleanGet(values_map, col) == to_clean_str(MapGet(values_map, col, PyStr(<<>>)))

\* the data rows of a worksheet
DataRowCount(w) == IF Len(w) <= 1 THEN 0 ELSE Len(w) - 1

\* the rows of w, below the header, whose cleaned art_kart is key
RowsHolding(w, key) ==
    LET kcol == FirstHeader(ws_row_values(w, 1), c_art_kart)
    IN  IF kcol = 0 THEN {}
        ELSE {r \in 2..Len(w) : to_clean_str(PyStr(ws_acell(w, r, kcol))) = key}

\* the least element of a set of numbers
Least(rows) == CHOOSE r \in rows : \A q \in rows : r <= q

\* the row a call of upsert_in_source with the key is to write
TargetRow(before, key) ==
    IF RowsHolding(before, key) # {} THEN Least(RowsHolding(before, key))
    ELSE Max2(Len(before), 1) + 1

\* what C21 says of a call, but for the cell of art_desart_precedente: with a
\* holder of the key the first holder is written and nothing is appended,
\* with none one row is appended; no other data row changes, and the cells
\* of the row outside WRITE_COLS are as they were
UpsertUpdatesOrAppends(before, after, values_map, result) ==
    LET key == CleanGet(values_map, c_art_kart)
        header == ws_row_values(after, 1)
        target == TargetRow(before, key)
        written == {FirstHeader(header, WRITE_COLS[k]) : k \in 1..Len(WRITE_COLS)}
    IN  /\ IF RowsHolding(before, key) # {}
           THEN result = "updated" /\ DataRowCount(after) = DataRowCount(before)
           ELSE result = "added" /\ DataRowCount(after) = DataRowCount(before) + 1
        /\ Len(after) >= target
        /\ \A r \in 2..Len(after) :
               r # target => ws_row_values(after, r) = ws_row_values(before, r)
        /\ \A c \in 1..Max2(Len(header), Len(ws_row_values(after, target))) :
               c \notin written => ws_acell(after, target, c) = ws_acell(before, target, c)
        /\ \A k \in 1..Len(WRITE_COLS) :
               WRITE_COLS[k] # c_art_desart_precedente =>
                   ws_acell(after, target, FirstHeader(header, WRITE_COLS[k]))
                       = CleanGet(values_map, WRITE_COLS[k])

\* the cell of art_desart_precedente in the row a call wrote
PrecedenteCell(before, after, values_map) ==
    ws_acell(after, TargetRow(before, CleanGet(values_map, c_art_kart)),
             FirstHeader(ws_row_values(after, 1), c_art_desart_precedente))

\* C21 as stated: a call with a key updates the first row that holds the key
\* or appends one row, never both, and the cell of art_desart_precedente in
\* that row ends equal to the argument art_desart_current
C21_UpdatesOrAppends ==
    (/\ lastcall.name = "upsert_in_source"
     /\ CleanGet(lastcall.values_map, c_art_kart) # <<>>) =>
        /\ lastcall.raised = ""
        /\ UpsertUpdatesOrAppends(lastcall.before, ws, lastcall.values_map, lastcall.result)
        /\ PrecedenteCell(lastcall.before, ws, lastcall.values_map)
               = lastcall.art_desart_current.val

\* C21, amended: a call with a key updates the first row that holds the key
\* or appends one row, never both, and the cell of art_desart_precedente in
\* that row ends equal to to_clean_str(art_desart_current)
C21_UpdatesOrAppendsCleaned ==
    (/\ lastcall.name = "upsert_in_source"
     /\ CleanGet(lastcall.values_map, c_art_kart) # <<>>) =>
        /\ lastcall.raised = ""
        /\ UpsertUpdatesOrAppends(lastcall.before, ws, lastcall.values_map, lastcall.result)
        /\ PrecedenteCell(lastcall.before, ws, lastcall.values_map)
               = to_clean_str(lastcall.art_desart_current)

\* an update of the first of two rows with the key, the description given
\* with a leading space
C21_Witness ==
    /\ lastcall.name = "upsert_in_source"
    /\ lastcall.result = "updated"
    /\ Cardinality(RowsHolding(lastcall.before, CleanGet(lastcall.values_map, c_art_kart))) = 2
    /\ lastcall.art_desart_current.val # to_clean_str(lastcall.art_desart_current)
    /\ ws # lastcall.before

\* C23: a call of upsert_in_source without a key (missing or empty art_kart)
\* raises "Campo 'art_kart' obbligatorio." and leaves the worksheet as it
\* was, header row included
C23_NoKeyLeavesSheetUnchanged ==
    (/\ lastcall.name = "upsert_in_source"
     /\ CleanGet(lastcall.values_map, c_art_kart) = <<>>) =>
        /\ lastcall.raised = "Campo 'art_kart' obbligatorio."
        /\ ws = lastcall.before

-----------------------------------------------------------------------------
(* upsert_in_source called by sessions that share the worksheet: every     *)
(* call of a session on the worksheet (row_values, update, col_values,     *)
(* append_row) is one step, and the steps of the sessions interleave.      *)
(* upserts[t] holds the local variables of the call of session t.          *)

\* sessions that write to the worksheet
UpsertSessions == 2
\* most calls of upsert_in_source by one session
MaxUpserts == 1

\* the arguments of the calls: a key the worksheet holds, and one it lacks
SessionArgs ==
    {<<(c_art_kart :> PyStr(Txt1)) @@ (c_Note :> PyStr(<<"m">>)), PyStr(<<"d">>)>>,
     <<(c_art_kart :> PyStr(<<"3">>)) @@ (c_Note :> PyStr(<<"m">>)), PyStr(<<"f">>)>>,
     <<(c_art_kart :> PyStr(<<"3">>)) @@ (c_Azienda :> PyStr(<<"y">>)), PyStr(<<"f">>)>>}

\* a session that is in no call
IdleCall == [UpsertCall(EmptyMap, PyNone) EXCEPT !.pc = "idle"]

InitSessions ==
    /\ pc = "sessions"
    /\ ws \in {Canon(SheetFull), Canon(SheetOdd)}
    /\ upserts = [t \in 1..UpsertSessions |-> [f |-> IdleCall, n |-> 0]]
    /\ lastcall = <<>> /\ session_state = <<>> /\ ui = <<>>
    /\ HelpersIdle

\* session t takes the next step of its call
SessionStep(t) ==
    /\ pc = "sessions"
    /\ LET n == UpsertStep(ws, upserts[t].f)
       IN  /\ ws' = n.ws
           /\ upserts' = [upserts EXCEPT ![t].f = n.f]
    /\ UNCHANGED <<pc, lastcall, session_state, ui>>
    /\ UNCHANGED HelperVars

\* session t calls upsert_in_source(ws, values_map, art_desart_current)
SessionCall(t) ==
    /\ pc = "sessions"
    /\ upserts[t].f.pc \in {"idle", "done"}
    /\ upserts[t].n < MaxUpserts
    /\ \E args \in SessionArgs :
           upserts' = [upserts EXCEPT ![t] = [f |-> UpsertCall(args[1], args[2]),
                                               n |-> upserts[t].n + 1]]
    /\ UNCHANGED <<pc, ws, lastcall, session_state, ui>>
    /\ UNCHANGED HelperVars

\* header = ws.row_values(1) and the loop of ensure_headers
SessionEnsureRead(t) == upserts[t].f.pc = "ensure_read" /\ SessionStep(t)
\* ws.update(rng, [header]) of ensure_headers
SessionEnsureWrite(t) == upserts[t].f.pc = "ensure_write" /\ SessionStep(t)
\* art_val and the test on it
SessionCheck(t) == upserts[t].f.pc = "check" /\ SessionStep(t)
\* find_row_number_by_art_kart_ws: ws.col_values(col_idx)
SessionFind(t) == upserts[t].f.pc = "find" /\ SessionStep(t)
\* ws.update(a1, [[value]]) of one column of WRITE_COLS
SessionUpdate(t) == upserts[t].f.pc = "update" /\ SessionStep(t)
\* header = ws.row_values(1) or []
SessionRowValues(t) == upserts[t].f.pc = "row_values" /\ SessionStep(t)
\* ws.append_row(new_row)
SessionAppendRow(t) == upserts[t].f.pc = "append_row" /\ SessionStep(t)

NextSessions ==
    \E t \in 1..UpsertSessions :
        \/ SessionCall(t) \/ SessionEnsureRead(t) \/ SessionEnsureWrite(t)
        \/ SessionCheck(t) \/ SessionFind(t) \/ SessionUpdate(t)
        \/ SessionRowValues(t) \/ SessionAppendRow(t)

SpecSessions == InitSessions /\ [][NextSessions]_vars

\* no two data rows of w hold the same cleaned art_kart
NoTwoRowsWithOneKey(w) ==
    LET kcol == FirstHeader(ws_row_values(w, 1), c_art_kart)
        Key(r) == to_clean_str(PyStr(ws_acell(w, r, kcol)))
    IN  kcol # 0 =>
            \A r1, r2 \in 2..Len(w) : (r1 < r2 /\ Key(r1) # <<>>) => Key(r1) # Key(r2)

\* C28: the worksheet starts with no two data rows of one art_kart; after
\* any interleaving of the calls of the two sessions there are still no two
\* such rows, and a call that updates writes the row that holds its key
C28_KeysStayUnique ==
    /\ NoTwoRowsWithOneKey(ws)
    /\ \A t \in 1..UpsertSessions :
           upserts[t].f.pc = "update" =>
               to_clean_str(PyStr(ws_acell(ws, upserts[t].f.row_number,
                                           upserts[t].f.col_map[c_art_kart])))
                   = upserts[t].f.art_val

-----------------------------------------------------------------------------
(* The detail panel of one browser session: a run of the script on the     *)
(* selected row (DETTAGLIO blocks), the save handler and the global        *)
(* rename dialog.  session_state holds st.session_state: the local table   *)
(* df, the per-field maps, and the state of the widgets of the row on      *)
(* view (select_widget: the selectboxes select_<field>_<art_kart>,         *)
(* detail_editor: the cells typed into the data editor).  Streamlit drops  *)
(* the state of a widget that a run does not render, so the widgets of a   *)
(* row start afresh when the row comes on view again.  The table df is a   *)
(* sequence of rows, a row maps column names to texts.  The list of        *)
(* options of a field is kept as the set of its entries (no two of them    *)
(* have the same norm_key): its order fixes only the place of an option in *)
(* the dropdown.  An operator action leaves the state of its widget and    *)
(* asks for a run of the script (pc = "script"); the run, the save handler *)
(* included, is the action Script.  ui holds the action, the run it asked  *)
(* for, and what the last run rendered.                                    *)

\* most operator actions in one session
MaxEvents == 4

\* st.session_state["current_art_kart"] = None; no row selected
NoKey == <<"None">>

\* F of x, with x evaluated once
With(x, F(_)) == CHOOSE y \in {F(v) : v \in {x}} : TRUE

\* to_clean_str, normalize_spaces and norm_key of a str
CleanText(t) == to_clean_str(PyStr(t))
NormText(t) == normalize_spaces(PyStr(t))
KeyText(t) == norm_key(PyStr(t))

\* x or y or ..., where None counts as ""
FirstTruthy(q) ==
    LET Truthy(i) == q[i] # <<>>
        truthy == SelectSeq(Indices(q), Truthy)
    IN  IF truthy = <<>> THEN <<>> ELSE q[truthy[1]]

\* load_df: the rows below the header that are not empty, every cell
\* through to_clean_str, and the columns of RESULT_COLS and WRITE_COLS that
\* the header lacks, empty
load_df(w) ==
    LET header == ws_row_values(w, 1)
        cols == Range(header) \cup Range(RESULT_COLS) \cup Range(WRITE_COLS)
        Filled(r) == r >= 2 /\ ws_row_values(w, r) # <<>>
        rows == SelectSeq(Indices(w), Filled)
        Col(c) == CHOOSE i \in 1..Len(header) : header[i] = c
    IN  [k \in 1..Len(rows) |->
            [c \in cols |->
                IF c \in Range(header) THEN CleanText(ws_acell(w, rows[k], Col(c)))
                ELSE <<>>]]

\* unique_values_case_insensitive: for every casefolded value that is not
\* empty, the first spelling in the column, spaces normalised
unique_values_case_insensitive(series) ==
    {NormText(series[i]) : i \in {j \in 1..Len(series) :
        /\ KeyText(series[j]) # <<>>
        /\ \A h \in 1..(j - 1) : KeyText(series[h]) # KeyText(series[j])}}

\* the columns of the editor "altri campi"
other_cols ==
    LET Other(i) == WRITE_COLS[i] \notin Range(SELECT_FIELDS)
        other == SelectSeq(Indices(WRITE_COLS), Other)
    IN  [k \in 1..Len(other) |-> WRITE_COLS[other[k]]]

\* _new_view_url(new_file_id), for the file Drive made
NewViewUrl == <<"v">>

\* full_row: the first row of df with the key of the selected row
FullRowOf(table, selected_key) ==
    LET Match(i) == CleanText(table[i][c_art_kart]) = CleanText(selected_key)
        matches == SelectSeq(Indices(table), Match)
    IN  table[matches[1]]

\* the snapshot of a row: its WRITE_COLS values, spaces normalised
BaseSnapshot(full_row) ==
    [c \in Range(WRITE_COLS) |-> NormText(CleanText(full_row[c]))]

\* render_select_row up to the selectbox: the options, the option the
\* selectbox returns (the one the operator chooses in this run, else the
\* one the widget holds, else the one at def_idx) and val
render_select_row(ss, col_name, full_row, current_art_kart, chosen) ==
    LET listed == {<<>>} \cup ss.unique_options_by_field[col_name]
        Selectbox(default_value) ==
            LET Returned(options) ==
                    LET held == /\ col_name \in DOMAIN ss.select_widget
                                /\ ss.select_widget[col_name] \in options
                    IN  IF chosen # NoKey THEN chosen
                        ELSE IF held THEN ss.select_widget[col_name]
                        ELSE CHOOSE o \in options : KeyText(o) = KeyText(default_value)
                Row(options) ==
                    With(Returned(options),
                         LAMBDA returned : [options |-> options, returned |-> returned,
                                            val |-> NormText(returned)])
            IN  With(IF /\ default_value # <<>>
                        /\ \A v \in listed : KeyText(default_value) # KeyText(v)
                     THEN listed \cup {default_value} ELSE listed,
                     Row)
    IN  With(FirstTruthy(<<MapGet(ss.effective_by_field[col_name], current_art_kart, <<>>),
                           MapGet(ss.selected_by_field[col_name], current_art_kart, <<>>),
                           MapGet(ss.pending_by_field[col_name], current_art_kart, <<>>),
                           NormText(full_row[col_name])>>),
             Selectbox)

\* get_current_value: the first of the widget, the three maps and the row
\* of the table that is not empty
get_current_value(ss, field, full_row, current_art_kart) ==
    NormText(FirstTruthy(<<MapGet(ss.select_widget, field, <<>>),
                           MapGet(ss.effective_by_field[field], current_art_kart, <<>>),
                           MapGet(ss.selected_by_field[field], current_art_kart, <<>>),
                           MapGet(ss.pending_by_field[field], current_art_kart, <<>>),
                           full_row[field]>>))

\* the cells that the save handler writes again: the select fields whose
\* cell, spaces normalised, is not the value selected (the handler reads
\* them all before it writes any; no cell is read or written twice)
RECURSIVE ForceCells(_, _, _, _, _)
ForceCells(w, to_check, row_number, col_map, values_map) ==
    IF to_check = <<>> THEN w
    ELSE LET field == Head(to_check)
             differs == NormText(ws_acell(w, row_number, col_map[field]))
                            # NormText(values_map[field])
         IN  ForceCells(IF differs
                        THEN ws_update(w, row_number, col_map[field], <<values_map[field]>>)
                        ELSE w,
                        Tail(to_check), row_number, col_map, values_map)

\* the save handler after upsert_in_source has returned u: ensure_headers
\* and the lookup of the row, then the forced cells
SaveAfterUpsert(u, values_map, art_val) ==
    IF u.f.raised # ""
    THEN [ws |-> u.ws, raised |-> u.f.raised, result |-> "", row_number |-> 0]
    ELSE LET Force(h, row_number) ==
                 [ws |-> IF row_number # 0
                         THEN ForceCells(h.ws, SELECT_FIELDS, row_number,
                                         h.col_map, values_map)
                         ELSE h.ws,
                  raised |-> "", result |-> u.f.result, row_number |-> row_number]
             Find(h) ==
                 With(find_row_number_by_art_kart_ws(h.ws, h.col_map, PyStr(art_val)),
                      LAMBDA row_number : Force(h, row_number))
         IN  With(ensure_headers(u.ws, DictFromKeys(WRITE_COLS \o <<c_art_kart>>)), Find)

\* the part of the save handler that writes: upsert_in_source, then
\* ensure_headers and the lookup of the row, then the forced cells
save_in_source(w, values_map, art_val, art_desart_current) ==
    LET After(u) == SaveAfterUpsert(u, values_map, art_val)
    IN  With(upsert_in_source(w, [c \in DOMAIN values_map |-> PyStr(values_map[c])],
                              PyStr(art_desart_current)),
             After)

\* what a run shows when no row is selected
NoRender ==
    [rendered |-> FALSE, current_art_kart |-> NoKey,
     options |-> EmptyMap, val |-> EmptyMap,
     current_select_values |-> EmptyMap, current_other_values |-> EmptyMap,
     is_dirty |-> FALSE, just_saved |-> FALSE, save_btn_label |-> "",
     save_clicked |-> FALSE, saved |-> FALSE, result |-> "", art_val |-> <<>>,
     row_number |-> 0, before |-> <<>>]

\* the run up to the select rows: full_row, current_art_kart, and on a
\* change of row the snapshot of the values of the origin
RowOnView(ss, w, chosen_field, chosen, save_clicked) ==
    LET Prepared(full_row, current_art_kart) ==
                [ss |-> IF ss.current_art_kart # current_art_kart
                        THEN [ss EXCEPT
                                !.last_saved_by_art =
                                    (current_art_kart :> BaseSnapshot(full_row)) @@ @,
                                !.save_state_by_art = (current_art_kart :> FALSE) @@ @,
                                !.current_art_kart = current_art_kart,
                                !.select_widget = EmptyMap,
                                !.detail_editor = EmptyMap]
                        ELSE ss,
                 ws |-> w,
                 full_row |-> full_row,
                 current_art_kart |-> current_art_kart,
                 chosen_field |-> chosen_field, chosen |-> chosen,
                 save_clicked |-> save_clicked]
        Keyed(full_row) ==
            With(CleanText(full_row[c_art_kart]),
                 LAMBDA current_art_kart : Prepared(full_row, current_art_kart))
    IN  With(FullRowOf(ss.df, ss.selected_row), Keyed)

\* the loop of render_select_row over SELECT_FIELDS: the maps of every
\* field take val, and just_saved is reset
SelectRows(e) ==
    LET Looped(rows) ==
            LET Put(m) == [f \in Range(SELECT_FIELDS) |->
                              (e.current_art_kart :> rows[f].val) @@ m[f]] @@ EmptyMap
            IN  [ss |-> [e.ss EXCEPT
                           !.selected_by_field = Put(@),
                           !.effective_by_field = Put(@),
                           !.pending_by_field = Put(@),
                           !.save_state_by_art = (e.current_art_kart :> FALSE) @@ @,
                           !.select_widget =
                               [f \in Range(SELECT_FIELDS) |-> rows[f].returned] @@ EmptyMap],
                 ws |-> e.ws,
                 full_row |-> e.full_row,
                 current_art_kart |-> e.current_art_kart,
                 save_clicked |-> e.save_clicked,
                 options |-> [f \in Range(SELECT_FIELDS) |-> rows[f].options] @@ EmptyMap,
                 val |-> [f \in Range(SELECT_FIELDS) |-> rows[f].val] @@ EmptyMap]
    IN  With([f \in Range(SELECT_FIELDS) |->
                 render_select_row(e.ss, f, e.full_row, e.current_art_kart,
                                   IF f = e.chosen_field THEN e.chosen ELSE NoKey)]
                 @@ EmptyMap,
             Looped)

\* the cell Valore of the editor for column c: what the operator typed, else
\* the value of full_row
Valore(e, c) ==
    IF c \in DOMAIN e.ss.detail_editor THEN e.ss.detail_editor[c]
    ELSE CleanText(e.full_row[c])

\* the block "stato salvato / non salvato" and the label of the button
SavedOrNot(e) ==
    LET Labelled(current, is_dirty, just_saved) ==
                [ss |-> IF is_dirty
                        THEN [e.ss EXCEPT !.save_state_by_art =
                                              (e.current_art_kart :> FALSE) @@ @]
                        ELSE e.ss,
                 ws |-> e.ws,
                 full_row |-> e.full_row,
                 current_art_kart |-> e.current_art_kart,
                 save_clicked |-> e.save_clicked,
                 options |-> e.options,
                 val |-> e.val,
                 current |-> current,
                 is_dirty |-> is_dirty,
                 just_saved |-> just_saved,
                 save_btn_label |-> IF just_saved THEN "Salvato" ELSE "Salva nell'origine"]
        Dirty(current, is_dirty) ==
            Labelled(current, is_dirty,
                     IF is_dirty THEN FALSE
                     ELSE MapGet(e.ss.save_state_by_art, e.current_art_kart, FALSE))
        Compared(current) ==
            LET snapshot == MapGet(e.ss.last_saved_by_art, e.current_art_kart, EmptyMap)
                Saved(c) == MapGet(snapshot, c, NormText(CleanText(e.full_row[c])))
            IN  With(\E c \in Range(WRITE_COLS) : KeyText(current[c]) # KeyText(Saved(c)),
                     LAMBDA is_dirty : Dirty(current, is_dirty))
    IN  With([c \in Range(WRITE_COLS) |->
                 IF c \in Range(SELECT_FIELDS)
                 THEN get_current_value(e.ss, c, e.full_row, e.current_art_kart)
                 ELSE NormText(CleanText(Valore(e, c)))] @@ EmptyMap,
             Compared)

\* what the run rendered: the widgets, the values and the label
Shown(e) ==
    [rendered |-> TRUE, current_art_kart |-> e.current_art_kart,
     options |-> e.options, val |-> e.val,
     current_select_values |-> [f \in Range(SELECT_FIELDS) |-> e.current[f]] @@ EmptyMap,
     current_other_values |-> [c \in Range(other_cols) |-> e.current[c]] @@ EmptyMap,
     is_dirty |-> e.is_dirty, just_saved |-> e.just_saved,
     save_btn_label |-> e.save_btn_label,
     save_clicked |-> e.save_clicked, saved |-> FALSE, result |-> "",
     art_val |-> <<>>, row_number |-> 0, before |-> e.ws]

\* the values_map of the save handler, before the image: the cells of the
\* editor cleaned, the select fields, and art_kart
SaveValuesMap(e) ==
    LET art_val == FirstTruthy(<<CleanText(e.full_row[c_art_kart]),
                                 CleanText(CleanText(Valore(e, c_art_kart)))>>)
    IN  [c \in Range(WRITE_COLS) |->
            IF c = c_art_kart THEN art_val
            ELSE IF c \in Range(SELECT_FIELDS) THEN NormText(e.current[c])
            ELSE CleanText(Valore(e, c))] @@ EmptyMap

\* the save handler: values_map, the image, the writes, and the local state
SaveClicked(e) ==
    LET Handled(values_map0) ==
            LET current_art_kart == e.current_art_kart
                art_val == values_map0[c_art_kart]
                uploaded == current_art_kart \in e.ss.uploaded_image_by_art
                picked == current_art_kart \in e.ss.picked_image_by_art
                values_map ==
                    [values_map0 EXCEPT ![c_URL_immagine] =
                                            IF uploaded \/ picked THEN NewViewUrl ELSE @]
                popped == [e.ss EXCEPT
                             !.uploaded_image_by_art = @ \ {current_art_kart},
                             !.picked_image_by_art =
                                 IF uploaded THEN @ ELSE @ \ {current_art_kart}]
                Mask(row) == CleanText(row[c_art_kart]) = art_val
                Written(written) ==
                    IF written.raised # ""
                    THEN [ss |-> popped, ws |-> written.ws,
                          out |-> [Shown(e) EXCEPT !.art_val = art_val]]
                    ELSE [ss |-> [popped EXCEPT
                                    !.effective_by_field =
                                        [f \in Range(SELECT_FIELDS) |->
                                            (current_art_kart :> values_map[f]) @@ @[f]]
                                            @@ EmptyMap,
                                    !.df = [i \in 1..Len(@) |->
                                               IF Mask(@[i])
                                               THEN [c \in DOMAIN @[i] |->
                                                        IF c \in Range(WRITE_COLS)
                                                        THEN NormText(values_map[c])
                                                        ELSE @[i][c]] @@ EmptyMap
                                               ELSE @[i]] \o <<>>,
                                    !.last_saved_by_art =
                                        (current_art_kart :>
                                            ([c \in Range(WRITE_COLS) |->
                                                 NormText(values_map[c])] @@ EmptyMap))
                                            @@ @,
                                    !.save_state_by_art = (current_art_kart :> TRUE) @@ @],
                          ws |-> written.ws,
                          out |-> [Shown(e) EXCEPT !.art_val = art_val, !.saved = TRUE,
                                                   !.result = written.result,
                                                   !.row_number = written.row_number]]
            IN  IF art_val = <<>> THEN [ss |-> e.ss, ws |-> e.ws, out |-> Shown(e)]
                ELSE With(save_in_source(e.ws, values_map, art_val,
                                         CleanText(e.full_row[c_art_desart])),
                          Written)
    IN  With(SaveValuesMap(e), Handled)

\* the end of the run: the save handler if the button was clicked
EndOfRun(e) ==
    IF e.save_clicked THEN SaveClicked(e)
    ELSE [ss |-> e.ss, ws |-> e.ws, out |-> Shown(e)]

\* one run of the script on session state ss and worksheet w: the operator
\* has chosen the option chosen in the selectbox of field chosen_field (or
\* none, chosen = NoKey), and has clicked the save button or not
UIRun(ss, w, chosen_field, chosen, save_clicked) ==
    IF ss.selected_row = NoKey
    THEN [ss |-> [ss EXCEPT !.select_widget = EmptyMap, !.detail_editor = EmptyMap],
          ws |-> w, out |-> [NoRender EXCEPT !.before = w]]
    ELSE With(With(With(RowOnView(ss, w, chosen_field, chosen, save_clicked),
                        SelectRows),
                   SavedOrNot),
              EndOfRun)

\* the confirm button of dialog_rinomina_generica(col_name, old_val) with
\* new_val typed, up to st.rerun()
dialog_rinomina_generica(ss, w, col_name, old_val, new_val) ==
    LET old_clean == NormText(old_val)
        known == {v \in ss.unique_options_by_field[col_name] :
                     KeyText(v) = KeyText(NormText(new_val))}
        new_clean == IF known # {} THEN CHOOSE v \in known : TRUE ELSE NormText(new_val)
        replaced == {IF KeyText(o) = KeyText(old_clean) THEN new_clean ELSE o :
                        o \in ss.unique_options_by_field[col_name]}
        current_art_kart == ss.current_art_kart
    IN  [ws |-> batch_find_replace_generic(w, col_name, PyStr(old_clean), PyStr(new_clean)),
         ss |-> [ss EXCEPT
                   !.df = [i \in 1..Len(@) |->
                              IF KeyText(@[i][col_name]) = KeyText(old_clean)
                              THEN [@[i] EXCEPT ![col_name] = new_clean] ELSE @[i]] \o <<>>,
                   !.unique_options_by_field[col_name] = replaced \cup {new_clean},
                   !.pending_by_field[col_name] = (current_art_kart :> new_clean) @@ @,
                   !.selected_by_field[col_name] = (current_art_kart :> new_clean) @@ @,
                   !.effective_by_field[col_name] = (current_art_kart :> new_clean) @@ @,
                   !.select_widget = (col_name :> new_clean) @@ @,
                   !.save_state_by_art = (current_art_kart :> FALSE) @@ @]]

\* the worksheets of the session: every column, and a header without
\* URL_immagine and art_desart_precedente
SheetShort ==
    <<SubSeq(FullHeader, 1, 8),
      <<Txt1, <<"d">>, <<"x">>, <<>>, <<>>, <<>>, <<>>, <<"n">>>>,
      <<Txt2, <<"e">>, <<"x", " ", " ", "x">>>>>>

UISheets == {Canon(SheetFull), Canon(SheetShort)}

\* the worksheet when the operator starts, the table having been loaded
\* from loaded: as loaded, or with its last row removed since
SheetsSince(loaded) == {loaded, SubSeq(loaded, 1, Len(loaded) - 1)}

\* the fields whose selectbox and rename dialog the operator uses
UIFields == {c_Azienda, c_Note}
\* the names typed in the rename dialog, and the text typed in the editor
RenameTexts == {<<"y">>, <<"X">>}
EditTexts == {<<"u">>}

\* st.session_state after the first run, the table loaded from loaded and no
\* row selected
SessionStateFrom(loaded) ==
    LET table == load_df(loaded)
    IN  [df |-> table,
         selected_row |-> NoKey,
         current_art_kart |-> NoKey,
         last_saved_by_art |-> EmptyMap,
         save_state_by_art |-> EmptyMap,
         pending_by_field |-> [f \in Range(SELECT_FIELDS) |-> EmptyMap],
         selected_by_field |-> [f \in Range(SELECT_FIELDS) |-> EmptyMap],
         effective_by_field |-> [f \in Range(SELECT_FIELDS) |-> EmptyMap],
         unique_options_by_field |->
             [f \in Range(SELECT_FIELDS) |->
                 unique_values_case_insensitive([i \in 1..Len(table) |-> table[i][f]])],
         select_widget |-> EmptyMap,
         detail_editor |-> EmptyMap,
         uploaded_image_by_art |-> {},
         picked_image_by_art |-> {}]

\* what is remembered of the session: the number of operator actions, the
\* last one and the run it asked for, the row saved and on view with nothing
\* modified since, and the rename done with nothing edited since
NoRename == [col_name |-> <<>>, old_val |-> <<>>, new_val |-> <<>>]

InitUI ==
    /\ pc = "ui"
    /\ \E loaded \in UISheets :
           /\ ws \in SheetsSince(loaded)
           /\ session_state = SessionStateFrom(loaded)
    /\ ui = [n |-> 0, event |-> "", chosen_field |-> NoKey, chosen |-> NoKey,
             save_clicked |-> FALSE, saved_key |-> NoKey, renamed |-> NoRename,
             out |-> NoRender]
    /\ lastcall = <<>> /\ upserts = <<>>
    /\ HelpersIdle

\* an operator action on the page: the state of the widgets it leaves, and
\* the run of the script it asks for
Requested(event, ss, w, chosen_field, chosen, save_clicked, saved_key, renamed) ==
    /\ pc = "ui"
    /\ ui.n < MaxEvents
    /\ pc' = "script"
    /\ session_state' = ss
    /\ ws' = w
    /\ ui' = [ui EXCEPT !.n = @ + 1, !.event = event,
                        !.chosen_field = chosen_field, !.chosen = chosen,
                        !.save_clicked = save_clicked,
                        !.saved_key = saved_key, !.renamed = renamed]
    /\ UNCHANGED <<lastcall, upserts>>
    /\ UNCHANGED HelperVars

\* the operator selects a row of the grid
SelectRow ==
    \E i \in 1..Len(session_state.df) :
        /\ session_state.df[i][c_art_kart] # session_state.selected_row
        /\ Requested("select",
                     [session_state EXCEPT !.selected_row = session_state.df[i][c_art_kart]],
                     ws, NoKey, NoKey, FALSE, NoKey, ui.renamed)

\* the operator uses a widget that changes nothing of the row
Rerun ==
    /\ pc = "ui"
    /\ Requested("rerun", session_state, ws, NoKey, NoKey, FALSE, ui.saved_key, ui.renamed)

\* the operator chooses another option in the selectbox of a field
ChooseOption ==
    /\ ui.out.rendered
    /\ \E f \in UIFields : \E o \in ui.out.options[f] :
           /\ o # session_state.select_widget[f]
           /\ Requested("choose", session_state, ws, f, o, FALSE, NoKey, NoRename)

\* the operator types in a cell of the editor of the other columns; the
\* on_change callback runs before the script
EditDetail ==
    /\ ui.out.rendered
    /\ \E c \in Range(other_cols), t \in EditTexts :
           /\ MapGet(session_state.detail_editor, c, <<>>) # t
           /\ Requested("edit",
                        [session_state EXCEPT
                            !.detail_editor = (c :> t) @@ @,
                            !.save_state_by_art = (ui.out.current_art_kart :> FALSE) @@ @],
                        ws, NoKey, NoKey, FALSE, NoKey, NoRename)

\* the operator uploads an image for the selected row, or picks one
ChooseImage ==
    /\ ui.out.rendered
    /\ \E uploads \in BOOLEAN :
           /\ ui.out.current_art_kart \notin
                  (IF uploads THEN session_state.uploaded_image_by_art
                   ELSE session_state.picked_image_by_art)
           /\ Requested("image",
                        IF uploads
                        THEN [session_state EXCEPT !.uploaded_image_by_art =
                                 @ \cup {ui.out.current_art_kart}]
                        ELSE [session_state EXCEPT !.picked_image_by_art =
                                 @ \cup {ui.out.current_art_kart}],
                        ws, NoKey, NoKey, FALSE, NoKey, NoRename)

\* the operator clicks the save button
Save ==
    /\ ui.out.rendered
    /\ Requested("save", session_state, ws, NoKey, NoKey, TRUE, ui.saved_key, ui.renamed)

\* the operator opens the rename dialog of a field, types a name and
\* confirms; the dialog ends with st.rerun()
Rename ==
    /\ ui.out.rendered
    /\ \E f \in UIFields, new_val \in RenameTexts :
           /\ ui.out.val[f] # <<>>
           /\ NormText(new_val) # <<>>
           /\ \E d \in {dialog_rinomina_generica(session_state, ws, f,
                                                   ui.out.val[f], new_val)} :
                  Requested("rename", d.ss, d.ws, NoKey, NoKey, FALSE, NoKey,
                            [col_name |-> f, old_val |-> ui.out.val[f],
                             new_val |-> new_val])

\* the run of the script that the action asked for, the save handler
\* included if the button was clicked
Script ==
    /\ pc = "script"
    /\ pc' = "ui"
    /\ \E run \in {UIRun(session_state, ws, ui.chosen_field, ui.chosen, ui.save_clicked)} :
           /\ session_state' = run.ss
           /\ ws' = run.ws
           /\ ui' = [ui EXCEPT !.out = run.out,
                               !.chosen_field = NoKey, !.chosen = NoKey,
                               !.save_clicked = FALSE,
                               !.saved_key = IF run.out.saved THEN run.out.current_art_kart
                                             ELSE @]
    /\ UNCHANGED <<lastcall, upserts>>
    /\ UNCHANGED HelperVars

NextUI ==
    \/ SelectRow \/ Rerun \/ ChooseOption \/ EditDetail \/ ChooseImage \/ Save \/ Rename
    \/ Script

SpecUI == InitUI /\ [][NextUI]_vars

\* the most cells in a row of w
Width(w) ==
    IF w = <<>> THEN 0
    ELSE CHOOSE n \in {Len(w[r]) : r \in 1..Len(w)} : \A r \in 1..Len(w) : Len(w[r]) <= n

\* the column of the worksheet that holds col
ColumnOf(w, col) == FirstHeader(ws_row_values(w, 1), col)

C24_TableMatchesSheetAfterSave ==
    (pc = "ui" /\ ui.event = "save" /\ ui.out.saved /\ ui.out.row_number # 0) =>
        \A i \in 1..Len(session_state.df) :
            CleanText(session_state.df[i][c_art_kart]) = ui.out.art_val =>
                \A c \in Range(WRITE_COLS) :
                    NormText(session_state.df[i][c])
                        = NormText(ws_acell(ws, ui.out.row_number, ColumnOf(ws, c)))

\* C25: for every select field, the value a save writes is the option
\* selected in the dropdown at the save, the empty option on a row whose
\* stored value is not empty included
C25_SaveWritesSelectedOption ==
    (pc = "ui" /\ ui.event = "save" /\ ui.out.saved /\ ui.out.row_number # 0) =>
        \A f \in Range(SELECT_FIELDS) :
            ws_acell(ws, ui.out.row_number, ColumnOf(ws, f)) = ui.out.val[f]

\* C26: the render that follows a successful save, nothing modified, has
\* just_saved true and the button labelled "Salvato"; after a modification
\* the label is "Salva nell'origine" again
C26_SavedLabelUntilModified ==
    /\ (pc = "ui" /\ ui.event = "rerun" /\ ui.out.rendered
            /\ ui.saved_key = ui.out.current_art_kart)
           => (ui.out.just_saved /\ ui.out.save_btn_label = "Salvato")
    /\ (pc = "ui" /\ ui.event \in {"choose", "edit"} /\ ui.out.rendered)
           => ui.out.save_btn_label = "Salva nell'origine"

\* C27: after a global rename of X to Y in a column, and until the operator
\* edits again, no row of the local table has X in the column, letter case
\* and spaces aside, and the value of the column that a save of the row on
\* view would write is not X
C27_NoOldValueAfterRename ==
    (/\ pc = "ui"
     /\ ui.renamed # NoRename
     /\ KeyText(ui.renamed.old_val) # KeyText(ui.renamed.new_val)) =>
        /\ \A i \in 1..Len(session_state.df) :
               KeyText(session_state.df[i][ui.renamed.col_name])
                   # KeyText(ui.renamed.old_val)
        /\ ui.out.rendered =>
               KeyText(ui.out.current_select_values[ui.renamed.col_name])
                   # KeyText(ui.renamed.old_val)

====
